---- MODULE Spec2Model ----
(***************************************************************************)
(* Pehance enhancement orchestration engine (backend/enhanced_agents.py,   *)
(* backend/agents_framework.py, backend/server.py).                        *)
(*                                                                         *)
(* Numbers the program holds as floats in [0,1] (scores, confidence) are   *)
(* kept as integers in hundredths: 0.3 is 30.  Texts are kept as tuples of  *)
(* known string pieces; Chars gives the characters of a piece so that the  *)
(* program's substring tests are computed on characters.                   *)
(***************************************************************************)
EXTENDS Integers, Sequences, FiniteSets, TLC

\* ------------------------------------------------------------ bounds ----

\* The most consecutive failures the upstream service is made to produce.
MaxFails == 2

\* ------------------------------------------------------- characters ----

\* The characters of every string piece the model handles.
Chars ==
    \* prose around a JSON object
    "Here is the analysis:" :> <<"H","e","r","e"," ","i","s"," ","t","h","e"," ","a","n","a","l","y","s","i","s",":">> @@
    "Fill {placeholders} later:" :> <<"F","i","l","l"," ","{","p","l","a","c","e","h","o","l","d","e","r","s","}"," ","l","a","t","e","r",":">> @@
    \* error messages and the phrases rate_limited_request looks for
    "" :> <<>> @@
    "429 Too Many Requests" :> <<"4","2","9"," ","T","o","o"," ","M","a","n","y"," ","R","e","q","u","e","s","t","s">> @@
    "Rate limit reached" :> <<"R","a","t","e"," ","l","i","m","i","t"," ","r","e","a","c","h","e","d">> @@
    "Invalid API Key" :> <<"I","n","v","a","l","i","d"," ","A","P","I"," ","K","e","y">> @@
    "Request timed out" :> <<"R","e","q","u","e","s","t"," ","t","i","m","e","d"," ","o","u","t">> @@
    "Input guardrail triggered" :> <<"I","n","p","u","t"," ","g","u","a","r","d","r","a","i","l"," ","t","r","i","g","g","e","r","e","d">> @@
    "Unexpected error in rate limiting logic" :> <<"U","n","e","x","p","e","c","t","e","d"," ","e","r","r","o","r"," ","i","n"," ","r","a","t","e"," ","l","i","m","i","t","i","n","g"," ","l","o","g","i","c">> @@
    "Error: " :> <<"E","r","r","o","r",":"," ">> @@
    "rate limit" :> <<"r","a","t","e"," ","l","i","m","i","t">> @@
    "too many requests" :> <<"t","o","o"," ","m","a","n","y"," ","r","e","q","u","e","s","t","s">> @@
    "429" :> <<"4","2","9">> @@
    \* the keys of the classification object
    "intent_category" :> <<"i","n","t","e","n","t","_","c","a","t","e","g","o","r","y">> @@
    "confidence" :> <<"c","o","n","f","i","d","e","n","c","e">> @@
    "specific_domain" :> <<"s","p","e","c","i","f","i","c","_","d","o","m","a","i","n">> @@
    "complexity_level" :> <<"c","o","m","p","l","e","x","i","t","y","_","l","e","v","e","l">> @@
    "requires_context" :> <<"r","e","q","u","i","r","e","s","_","c","o","n","t","e","x","t">> @@
    "input_complexity_score" :> <<"i","n","p","u","t","_","c","o","m","p","l","e","x","i","t","y","_","s","c","o","r","e">> @@
    "enhancement_recommended" :> <<"e","n","h","a","n","c","e","m","e","n","t","_","r","e","c","o","m","m","e","n","d","e","d">> @@
    "suggested_action" :> <<"s","u","g","g","e","s","t","e","d","_","a","c","t","i","o","n">> @@
    "conversation_starter" :> <<"c","o","n","v","e","r","s","a","t","i","o","n","_","s","t","a","r","t","e","r">> @@
    "input_type" :> <<"i","n","p","u","t","_","t","y","p","e">> @@
    \* the keys of the safety object
    "flagged" :> <<"f","l","a","g","g","e","d">> @@
    "safety_level" :> <<"s","a","f","e","t","y","_","l","e","v","e","l">> @@
    "reason" :> <<"r","e","a","s","o","n">> @@
    "categories" :> <<"c","a","t","e","g","o","r","i","e","s">> @@
    "recommendation" :> <<"r","e","c","o","m","m","e","n","d","a","t","i","o","n">> @@
    \* values of the fields of both objects
    "creative" :> <<"c","r","e","a","t","i","v","e">> @@
    "technical" :> <<"t","e","c","h","n","i","c","a","l">> @@
    "business" :> <<"b","u","s","i","n","e","s","s">> @@
    "other" :> <<"o","t","h","e","r">> @@
    "greeting" :> <<"g","r","e","e","t","i","n","g">> @@
    "basic" :> <<"b","a","s","i","c">> @@
    "intermediate" :> <<"i","n","t","e","r","m","e","d","i","a","t","e">> @@
    "advanced" :> <<"a","d","v","a","n","c","e","d">> @@
    "incomplete" :> <<"i","n","c","o","m","p","l","e","t","e">> @@
    "minimal" :> <<"m","i","n","i","m","a","l">> @@
    "substantial" :> <<"s","u","b","s","t","a","n","t","i","a","l">> @@
    "request_clarification" :> <<"r","e","q","u","e","s","t","_","c","l","a","r","i","f","i","c","a","t","i","o","n">> @@
    "basic_enhancement" :> <<"b","a","s","i","c","_","e","n","h","a","n","c","e","m","e","n","t">> @@
    "standard_enhancement" :> <<"s","t","a","n","d","a","r","d","_","e","n","h","a","n","c","e","m","e","n","t">> @@
    "advanced_enhancement" :> <<"a","d","v","a","n","c","e","d","_","e","n","h","a","n","c","e","m","e","n","t">> @@
    "clarification_request" :> <<"c","l","a","r","i","f","i","c","a","t","i","o","n","_","r","e","q","u","e","s","t">> @@
    "high" :> <<"h","i","g","h">> @@
    "0.8" :> <<"0",".","8">> @@
    "web development" :> <<"w","e","b"," ","d","e","v","e","l","o","p","m","e","n","t">> @@
    "What would you like to create today?" :> <<"W","h","a","t"," ","w","o","u","l","d"," ","y","o","u"," ","l","i","k","e"," ","t","o"," ","c","r","e","a","t","e"," ","t","o","d","a","y","?">> @@
    "allow" :> <<"a","l","l","o","w">> @@
    "review" :> <<"r","e","v","i","e","w">> @@
    "block" :> <<"b","l","o","c","k">> @@
    \* the keywords of the heuristic fallback (those not already above)
    "hello" :> <<"h","e","l","l","o">> @@
    "hi" :> <<"h","i">> @@
    "hey" :> <<"h","e","y">> @@
    "greetings" :> <<"g","r","e","e","t","i","n","g","s">> @@
    "write" :> <<"w","r","i","t","e">> @@
    "story" :> <<"s","t","o","r","y">> @@
    "art" :> <<"a","r","t">> @@
    "design" :> <<"d","e","s","i","g","n">> @@
    "code" :> <<"c","o","d","e">> @@
    "api" :> <<"a","p","i">> @@
    "program" :> <<"p","r","o","g","r","a","m">> @@
    "develop" :> <<"d","e","v","e","l","o","p">> @@
    "software" :> <<"s","o","f","t","w","a","r","e">> @@
    "strategy" :> <<"s","t","r","a","t","e","g","y">> @@
    "marketing" :> <<"m","a","r","k","e","t","i","n","g">> @@
    "startup" :> <<"s","t","a","r","t","u","p">> @@
    "company" :> <<"c","o","m","p","a","n","y">> @@
    \* the words of the keyword blocklist
    "hack" :> <<"h","a","c","k">> @@
    "illegal" :> <<"i","l","l","e","g","a","l">> @@
    "harmful" :> <<"h","a","r","m","f","u","l">> @@
    "violence" :> <<"v","i","o","l","e","n","c","e">> @@
    "exploit" :> <<"e","x","p","l","o","i","t">> @@
    "bypass" :> <<"b","y","p","a","s","s">> @@
    "jailbreak" :> <<"j","a","i","l","b","r","e","a","k">> @@
    \* the greetings create_enhanced_greeting_response looks for
    "good morning" :> <<"g","o","o","d"," ","m","o","r","n","i","n","g">> @@
    "good afternoon" :> <<"g","o","o","d"," ","a","f","t","e","r","n","o","o","n">> @@
    "good evening" :> <<"g","o","o","d"," ","e","v","e","n","i","n","g">> @@
    "howdy" :> <<"h","o","w","d","y">> @@
    "morning" :> <<"m","o","r","n","i","n","g">> @@
    "afternoon" :> <<"a","f","t","e","r","n","o","o","n">> @@
    "evening" :> <<"e","v","e","n","i","n","g">> @@
    \* upstream prose
    "This program has code" :> <<"T","h","i","s"," ","p","r","o","g","r","a","m"," ","h","a","s"," ","c","o","d","e">> @@
    "program code" :> <<"p","r","o","g","r","a","m"," ","c","o","d","e">> @@
    "I cannot comply" :> <<"I"," ","c","a","n","n","o","t"," ","c","o","m","p","l","y">> @@
    "Write a story" :> <<"W","r","i","t","e"," ","a"," ","s","t","o","r","y">> @@
    "business plan" :> <<"b","u","s","i","n","e","s","s"," ","p","l","a","n">> @@
    "Enhanced prompt text" :> <<"E","n","h","a","n","c","e","d"," ","p","r","o","m","p","t"," ","t","e","x","t">> @@
    "Domain context" :> <<"D","o","m","a","i","n"," ","c","o","n","t","e","x","t">> @@
    "4-D guidance" :> <<"4","-","D"," ","g","u","i","d","a","n","c","e">> @@
    "unsafe" :> <<"u","n","s","a","f","e">> @@
    \* prompts
    "How to Hack wifi" :> <<"H","o","w"," ","t","o"," ","H","a","c","k"," ","w","i","f","i">> @@
    "   " :> <<" "," "," ">> @@
    "plan my week" :> <<"p","l","a","n"," ","m","y"," ","w","e","e","k">> @@
    "Good Morning " :> <<"G","o","o","d"," ","M","o","r","n","i","n","g"," ">>

\* The lower-case letter of each upper-case ASCII letter.
AsciiLower ==
    "A" :> "a" @@ "B" :> "b" @@ "C" :> "c" @@ "D" :> "d" @@ "E" :> "e" @@
    "F" :> "f" @@ "G" :> "g" @@ "H" :> "h" @@ "I" :> "i" @@ "J" :> "j" @@
    "K" :> "k" @@ "L" :> "l" @@ "M" :> "m" @@ "N" :> "n" @@ "O" :> "o" @@
    "P" :> "p" @@ "Q" :> "q" @@ "R" :> "r" @@ "S" :> "s" @@ "T" :> "t" @@
    "U" :> "u" @@ "V" :> "v" @@ "W" :> "w" @@ "X" :> "x" @@ "Y" :> "y" @@
    "Z" :> "z"

\* str.lower() on one character.
LowerChar(c) == IF c \in DOMAIN AsciiLower THEN AsciiLower[c] ELSE c

\* str.lower() on a tuple of characters.
Lower(cs) == [i \in 1..Len(cs) |-> LowerChar(cs[i])]

\* Python's `sub in cs` on tuples of characters.
Contains(cs, sub) ==
    \E i \in 1..(Len(cs) - Len(sub) + 1) : SubSeq(cs, i, i + Len(sub) - 1) = sub

Min(a, b) == IF a <= b THEN a ELSE b

Max(a, b) == IF a >= b THEN a ELSE b

\* --------------------------------------------------- RateLimitConfig ----

MAX_RETRIES == 3
\* BASE_DELAY and MAX_DELAY in seconds.
BASE_DELAY == 1
MAX_DELAY == 30
BACKOFF_MULTIPLIER == 2
\* JITTER_RANGE in percent: random.uniform(-0.1, 0.1) is sampled at its ends and middle.
JITTER_RANGE == 10
Jitters == {0 - JITTER_RANGE, 0, JITTER_RANGE}

\* ------------------------------------------------------- exceptions ----

NoValue == [none |-> TRUE]

\* The messages the upstream client's exceptions carry.
UpstreamErrors ==
    {"429 Too Many Requests", "Rate limit reached", "Invalid API Key", "Request timed out"}

Raise(type, msg) == [kind |-> "raise", type |-> type, msg |-> msg]

Return(v) == [kind |-> "return", value |-> v]

\* The test on str(e) as it is, the case of its letters kept.
IsRateLimitErrorCaseSensitive(msg) ==
    \/ Contains(Chars[msg], Chars["rate limit"])
    \/ Contains(Chars[msg], Chars["too many requests"])
    \/ Contains(Chars[msg], Chars["429"])

\* A test that takes every error for a rate-limit error.
IsRateLimitErrorAlways(msg) == TRUE

\* The test of rate_limited_request on str(e).lower().
IsRateLimitError(msg) ==
    LET error_str == Lower(Chars[msg])
    IN  \/ Contains(error_str, Chars["rate limit"])
        \/ Contains(error_str, Chars["too many requests"])
        \/ Contains(error_str, Chars["429"])

\* --------------------------------------------- rate_limited_request ----

\* The state of one call of rate_limited_request: the loop variable, the
\* delay, the sleeps made so far (milliseconds slept, in order), the number
\* of invocations of func, and how the call ended.
NewCall ==
    [attempt |-> 0, delay |-> BASE_DELAY, sleeps |-> <<>>, calls |-> 0,
     status |-> "active", value |-> NoValue, error |-> NoValue]

IdleCall == [NewCall EXCEPT !.status = "idle"]

\* The loop with the retry bound tested as `attempt <= MAX_RETRIES`.
RateLimitedAttemptOneMore(r, outcome, jitter) ==
    IF r.attempt > MAX_RETRIES + 1
    THEN [r EXCEPT !.status = "raised",
                   !.error = Raise("Exception", "Unexpected error in rate limiting logic")]
    ELSE LET called == [r EXCEPT !.calls = @ + 1] IN
         IF outcome.kind = "return"
         THEN [called EXCEPT !.status = "returned", !.value = outcome.value]
         ELSE IF IsRateLimitError(outcome.msg) /\ r.attempt <= MAX_RETRIES
              THEN [called EXCEPT
                      !.sleeps = Append(@, Min(r.delay * (100 + jitter) * 10, MAX_DELAY * 1000)),
                      !.delay = @ * BACKOFF_MULTIPLIER,
                      !.attempt = @ + 1]
              ELSE [called EXCEPT !.status = "raised", !.error = outcome]

\* One iteration of the loop of rate_limited_request: func is invoked and
\* gives `outcome`; a rate-limit-class error below the retry bound sleeps and
\* continues, every other error is re-raised, a value is returned.
RateLimitedAttempt(r, outcome, jitter) ==
    IF r.attempt > MAX_RETRIES
    THEN [r EXCEPT !.status = "raised",
                   !.error = Raise("Exception", "Unexpected error in rate limiting logic")]
    ELSE LET called == [r EXCEPT !.calls = @ + 1] IN
         IF outcome.kind = "return"
         THEN [called EXCEPT !.status = "returned", !.value = outcome.value]
         ELSE IF IsRateLimitError(outcome.msg) /\ r.attempt < MAX_RETRIES
              THEN [called EXCEPT
                      !.sleeps = Append(@, Min(r.delay * (100 + jitter) * 10, MAX_DELAY * 1000)),
                      !.delay = @ * BACKOFF_MULTIPLIER,
                      !.attempt = @ + 1]
              ELSE [called EXCEPT !.status = "raised", !.error = outcome]

\* ------------------------------------------------- texts and JSON ----

\* Python's None where the program holds an Optional[str].
PyNone == "<None>"

\* A JSON value held by a key of an object: absent, null, a boolean, a number
\* (hundredths) or a string.
JAbsent == [t |-> "absent", b |-> FALSE, n |-> 0, s |-> ""]
JNull == [t |-> "null", b |-> FALSE, n |-> 0, s |-> ""]
JBool(b) == [t |-> "bool", b |-> b, n |-> 0, s |-> ""]
JNum(n) == [t |-> "num", b |-> FALSE, n |-> n, s |-> ""]
JStr(s) == [t |-> "str", b |-> FALSE, n |-> 0, s |-> s]

\* The keys parse_intent_json reads, and an object with none of them.
IntentKeys ==
    {"intent_category", "confidence", "specific_domain", "complexity_level",
     "requires_context", "input_complexity_score", "enhancement_recommended",
     "suggested_action", "conversation_starter", "input_type"}

\* The keys enhanced_safety_guardrail reads.
SafetyKeys == {"flagged", "safety_level", "reason", "confidence", "categories", "recommendation"}

NoFields == [k \in IntentKeys \cup SafetyKeys |-> JAbsent]

\* What json.loads recovers from a text: nothing, an object, or a value that
\* is not an object (n is the number, or the length of the array).
NoJson == [t |-> "none", n |-> 0, f |-> NoFields]
JObj(f) == [t |-> "obj", n |-> 0, f |-> f]
JArray(len) == [t |-> "array", n |-> len, f |-> NoFields]
JNumber(n) == [t |-> "number", n |-> n, f |-> NoFields]

\* A text: its prose pieces in order and the JSON value it carries, if any.
Text(prose, json) == [prose |-> prose, json |-> json]
Prose(piece) == Text(<<piece>>, NoJson)

\* The characters of a tuple of pieces.
Concat(pieces) ==
    LET upto[i \in 0..Len(pieces)] ==
            IF i = 0 THEN <<>> ELSE upto[i - 1] \o Chars[pieces[i]]
    IN  upto[Len(pieces)]

\* Python truthiness of a JSON value (`if json_data:`).
Truthy(j) ==
    CASE j.t = "obj" -> \E k \in DOMAIN j.f : j.f[k].t # "absent"
      [] j.t \in {"array", "number"} -> j.n # 0
      [] OTHER -> FALSE

\* ------------------------------------------------ JSON extraction ----

\* A text written as a sequence of tokens: a prose piece, a JSON object
\* (on one line or over several), a line break ("nl"), or a code-fence
\* marker with or without the word json ("fence_json", "fence").
Token(k, s, j, multiline) == [k |-> k, s |-> s, j |-> j, multiline |-> multiline]

\* text.strip(), the removal of a leading marker with json and of a
\* trailing marker, and text.strip() again.
StripFences(layout) ==
    LET trim(l) ==
            IF \A i \in DOMAIN l : l[i].k = "nl" THEN <<>>
            ELSE SubSeq(l,
                   CHOOSE i \in DOMAIN l :
                     l[i].k # "nl" /\ \A h \in 1..(i - 1) : l[h].k = "nl",
                   CHOOSE i \in DOMAIN l :
                     l[i].k # "nl" /\ \A h \in (i + 1)..Len(l) : l[h].k = "nl")
        head(l) == IF l # <<>> /\ l[1].k = "fence_json" THEN Tail(l) ELSE l
        tail(l) == IF l # <<>> /\ l[Len(l)].k = "fence" THEN SubSeq(l, 1, Len(l) - 1) ELSE l
    IN  trim(tail(head(trim(layout))))

\* The token holds the character `brace`.
HasBrace(token, brace) ==
    \/ token.k = "object"
    \/ token.k = "prose" /\ Contains(Chars[token.s], <<brace>>)

\* Method 1: json.loads of the whole text.
Method1(l) == IF Len(l) = 1 /\ l[1].k = "object" THEN l[1].j ELSE NoJson

\* Method 2: json.loads of the text from its first "{" to its last "}",
\* which succeeds when both belong to the object.
Method2(l) ==
    IF \E i \in DOMAIN l :
         /\ l[i].k = "object"
         /\ \A h \in 1..(i - 1) : ~HasBrace(l[h], "{")
         /\ \A h \in (i + 1)..Len(l) : ~HasBrace(l[h], "}")
    THEN l[CHOOSE i \in DOMAIN l : l[i].k = "object"].j
    ELSE NoJson

\* Method 3: json.loads of the first line that starts with "{", ends with
\* "}" and parses: an object written on a line of its own.
Method3(l) ==
    IF \E i \in DOMAIN l :
         /\ l[i].k = "object" /\ ~l[i].multiline
         /\ i = 1 \/ l[i - 1].k = "nl"
         /\ i = Len(l) \/ l[i + 1].k = "nl"
    THEN l[CHOOSE i \in DOMAIN l : l[i].k = "object"].j
    ELSE NoJson

\* The value the three methods of parse_intent_json leave in json_data.
Extract(layout) ==
    IF Method1(StripFences(layout)) # NoJson THEN Method1(StripFences(layout))
    ELSE IF Method2(StripFences(layout)) # NoJson THEN Method2(StripFences(layout))
    ELSE Method3(StripFences(layout))

\* The text written as `layout`, which holds one object: its prose, the
\* value parse_intent_json extracts from it, and the way it is written.
FromLayout(layout) ==
    [prose |-> [i \in 1..Cardinality({h \in DOMAIN layout : layout[h].k = "prose"}) |->
                  layout[CHOOSE h \in DOMAIN layout :
                           /\ layout[h].k = "prose"
                           /\ Cardinality({g \in 1..h : layout[g].k = "prose"}) = i].s],
     json |-> Extract(layout),
     layout |-> layout]

\* The JSON object written in a text, extracted or not.
Written(text) ==
    IF "layout" \in DOMAIN text
    THEN text.layout[CHOOSE i \in DOMAIN text.layout : text.layout[i].k = "object"].j
    ELSE text.json

\* `word in text.lower()`: the word is in the prose, in a key or in a string
\* value of the JSON written in the text (the words looked for are letters
\* only, so none can span the punctuation between them).
TextHasWord(text, word) ==
    \/ Contains(Lower(Concat(text.prose)), Chars[word])
    \/ /\ Written(text).t = "obj"
       /\ \E k \in DOMAIN Written(text).f :
            /\ Written(text).f[k].t # "absent"
            /\ \/ Contains(Chars[k], Chars[word])
               \/ /\ Written(text).f[k].t = "str"
                  /\ Contains(Lower(Chars[Written(text).f[k].s]), Chars[word])

\* `any(word in text_lower for word in words)`
AnyWord(text, words) == \E w \in words : TextHasWord(text, w)

\* ----------------------------------------------- parse_intent_json ----

\* float(x) of a string that Python reads as a number.
NumericStrings == ("0.8" :> 80)

\* float(json_data.get(key, default)): the value in hundredths, or the
\* exception float() raises.
PyFloat(v, default) ==
    CASE v.t = "absent" -> Return(default)
      [] v.t = "num" -> Return(v.n)
      [] v.t = "bool" -> Return(IF v.b THEN 100 ELSE 0)
      [] v.t = "str" -> IF v.s \in DOMAIN NumericStrings
                        THEN Return(NumericStrings[v.s])
                        ELSE Raise("ValueError", "")
      [] OTHER -> Raise("TypeError", "")

\* bool(json_data.get(key, True))
PyBool(v) ==
    CASE v.t = "absent" -> TRUE
      [] v.t = "bool" -> v.b
      [] v.t = "num" -> v.n # 0
      [] v.t = "str" -> v.s # ""
      [] OTHER -> FALSE

\* A `str` field of the pydantic model given json_data.get(key, default),
\* for the values the answers hold (a string, null, or no key): None fails
\* validation (pydantic's ValidationError, a ValueError).
PyStr(v, default) ==
    CASE v.t = "absent" -> Return(default)
      [] v.t = "str" -> Return(v.s)
      [] OTHER -> Raise("ValueError", "")

\* An Optional[str] field given json_data.get(key).
PyOptStr(v) ==
    CASE v.t \in {"absent", "null"} -> Return(PyNone)
      [] v.t = "str" -> Return(v.s)
      [] OTHER -> Raise("ValueError", "")

\* The category the heuristic fallback finds in the lower-cased text, its
\* keyword lists tried in order.
HeuristicCategory(text) ==
    IF AnyWord(text, {"hello", "hi", "hey", "greetings"}) THEN "greeting"
    ELSE IF AnyWord(text, {"write", "story", "creative", "art", "design"}) THEN "creative"
    ELSE IF AnyWord(text, {"code", "api", "program", "develop", "software", "technical"})
         THEN "technical"
    ELSE IF AnyWord(text, {"business", "strategy", "marketing", "startup", "company"})
         THEN "business"
    ELSE "other"

\* The complexity score and the confidence the heuristic gives a category.
HeuristicScore(intent_category) ==
    CASE intent_category = "greeting" -> 10
      [] intent_category = "creative" -> 40
      [] intent_category \in {"technical", "business"} -> 60
      [] OTHER -> 50

HeuristicConfidence(intent_category) ==
    CASE intent_category = "greeting" -> 80
      [] intent_category = "other" -> 30
      [] OTHER -> 70

\* The IntentClassification the heuristic fallback builds.
HeuristicRecord(intent_category, confidence, complexity_score) ==
    [intent_category |-> intent_category,
     confidence |-> confidence,
     specific_domain |-> PyNone,
     complexity_level |-> IF complexity_score < 40 THEN "basic" ELSE "intermediate",
     requires_context |-> complexity_score > 50,
     input_complexity_score |-> complexity_score,
     enhancement_recommended |-> complexity_score > 20,
     suggested_action |-> IF complexity_score < 30 THEN "request_clarification"
                          ELSE "basic_enhancement",
     conversation_starter |->
         IF complexity_score < 30
         THEN "I'd be happy to help! Could you provide more details about what you'd like me to help you with?"
         ELSE PyNone,
     input_type |-> IF intent_category = "greeting" THEN "greeting"
                    ELSE IF complexity_score < 50 THEN "minimal" ELSE "substantial"]

HeuristicOf(intent_category) ==
    HeuristicRecord(intent_category, HeuristicConfidence(intent_category),
                    HeuristicScore(intent_category))

\* The heuristic fallback of parse_intent_json on the (stripped) text.
HeuristicClassification(text) == HeuristicOf(HeuristicCategory(text))

\* IntentClassification(...) from the values read off json_data: the keyword
\* arguments are evaluated in order, so the first float() that fails decides;
\* validation of the model comes after them.
BuildClassification(f, confidence, score, category, domain, level, action, starter, itype) ==
    IF confidence.kind = "raise" THEN confidence
    ELSE IF score.kind = "raise" THEN score
    ELSE IF \/ category.kind = "raise" \/ domain.kind = "raise" \/ level.kind = "raise"
            \/ action.kind = "raise" \/ starter.kind = "raise" \/ itype.kind = "raise"
         THEN Raise("ValueError", "")
    ELSE Return(
          [intent_category |-> category.value,
           confidence |-> confidence.value,
           specific_domain |-> domain.value,
           complexity_level |-> level.value,
           requires_context |-> PyBool(f["requires_context"]),
           input_complexity_score |-> score.value,
           enhancement_recommended |-> PyBool(f["enhancement_recommended"]),
           suggested_action |-> action.value,
           conversation_starter |-> starter.value,
           input_type |-> itype.value])

\* The `if json_data:` branch of parse_intent_json: the classification built
\* from json_data, or the exception raised on the way (json_data.get on a
\* value that is not an object is an AttributeError).
StructuredClassification(json_data) ==
    IF json_data.t # "obj" THEN Raise("AttributeError", "")
    ELSE BuildClassification(
            json_data.f,
            PyFloat(json_data.f["confidence"], 50),
            PyFloat(json_data.f["input_complexity_score"], 50),
            PyStr(json_data.f["intent_category"], "other"),
            PyOptStr(json_data.f["specific_domain"]),
            PyStr(json_data.f["complexity_level"], "basic"),
            PyStr(json_data.f["suggested_action"], "standard_enhancement"),
            PyOptStr(json_data.f["conversation_starter"]),
            PyStr(json_data.f["input_type"], "minimal"))

\* The except clause of parse_intent_json: ValueError (and pydantic's
\* ValidationError, a ValueError) is caught and leads to the heuristic; any
\* other exception leaves the function.
CatchValueError(text, structured) ==
    IF structured.kind = "raise" /\ structured.type = "ValueError"
    THEN Return(HeuristicClassification(text))
    ELSE structured

\* parse_intent_json(text): the classification it returns or the exception
\* that leaves it.
parse_intent_json(text) ==
    IF Truthy(text.json)
    THEN CatchValueError(text, StructuredClassification(text.json))
    ELSE Return(HeuristicClassification(text))

\* ------------------------------------------------ agents_framework ----

\* AgentResult(final_output, success)
AgentResult(final_output, success) == [final_output |-> final_output, success |-> success]

\* Runner.run(agent, input) given what agent.process did: its text becomes a
\* successful AgentResult, the guardrail's exception is re-raised, and every
\* other exception becomes an unsuccessful AgentResult holding "Error: <e>".
RunnerRun(processed) ==
    IF processed.kind = "return"
    THEN Return(AgentResult(processed.value, TRUE))
    ELSE IF processed.type = "InputGuardrailTripwireTriggered"
         THEN processed
         ELSE Return(AgentResult(Text(<<"Error: ", processed.msg>>, NoJson), FALSE))

\* The exception Agent.process raises when a guardrail's tripwire is set.
Tripwire == Raise("InputGuardrailTripwireTriggered", "Input guardrail triggered")

\* ------------------------------------------------- safety guardrail ----

\* Python truthiness of a value of a JSON object (`is_flagged and ...`).
PyTruthy(v) ==
    CASE v.t = "bool" -> v.b
      [] v.t = "num" -> v.n # 0
      [] v.t = "str" -> v.s # ""
      [] OTHER -> FALSE

\* GuardrailFunctionOutput(output_info, tripwire_triggered); of output_info the
\* flag, the recommendation (absent when the function gives none) and the
\* method are kept.
GuardrailFunctionOutput(flagged, recommendation, method, tripwire_triggered) ==
    [flagged |-> flagged, recommendation |-> recommendation, method |-> method,
     tripwire_triggered |-> tripwire_triggered]

NoGuardrailOutput == GuardrailFunctionOutput(JAbsent, JAbsent, "none", FALSE)

blocklist == {"hack", "illegal", "harmful", "violence", "exploit", "bypass", "jailbreak"}

\* basic_safety_guardrail(ctx, agent, input_data)
basic_safety_guardrail(input_data) ==
    LET is_flagged == \E word \in blocklist : Contains(Lower(Chars[input_data]), Chars[word])
    IN  GuardrailFunctionOutput(JBool(is_flagged), JAbsent, "keyword_based", is_flagged)

\* The output built with tripwire_triggered left at its default of False.
AssessedOutputNoTripwire(is_flagged, confidence, recommendation, input_data) ==
    IF confidence.t \notin {"num", "bool"} THEN basic_safety_guardrail(input_data)
    ELSE GuardrailFunctionOutput(is_flagged, recommendation, "model", FALSE)

\* safety_result.get(key, default)
SafetyGet(safety_result, key, default) ==
    IF safety_result.f[key].t = "absent" THEN default ELSE safety_result.f[key]

\* The output enhanced_safety_guardrail builds from the values read off
\* safety_result; a confidence that cannot be formatted as a percentage
\* raises, and the function falls back on the keyword check.
AssessedOutput(is_flagged, confidence, recommendation, input_data) ==
    IF confidence.t \notin {"num", "bool"} THEN basic_safety_guardrail(input_data)
    ELSE GuardrailFunctionOutput(is_flagged, recommendation, "model",
             PyTruthy(is_flagged) /\ recommendation = JStr("block"))

\* enhanced_safety_guardrail(ctx, agent, input_data) from the point where
\* rate_limited_request(Runner.run, safety_agent, input_data) has ended with
\* `ran`: the text is parsed and the tripwire computed, or the function falls
\* back on the keyword check (the call raised, or no JSON object was found).
enhanced_safety_guardrail(ran, input_data) ==
    IF ran.kind = "raise" \/ ran.value.final_output.json.t # "obj"
    THEN basic_safety_guardrail(input_data)
    ELSE AssessedOutput(
            SafetyGet(ran.value.final_output.json, "flagged", JBool(FALSE)),
            SafetyGet(ran.value.final_output.json, "confidence", JNum(80)),
            SafetyGet(ran.value.final_output.json, "recommendation", JStr("allow")),
            input_data)

\* ------------------------------------------ orchestrate_enhancement ----

\* str.strip() on a tuple of characters.
Strip(cs) ==
    LET kept == {i \in 1..Len(cs) : cs[i] # " "}
    IN  IF kept = {} THEN <<>>
        ELSE SubSeq(cs, CHOOSE i \in kept : \A j \in kept : i <= j,
                        CHOOSE i \in kept : \A j \in kept : i >= j)

\* The hours at which create_enhanced_greeting_response may run, one for
\* each of its four time contexts.
Hours == {3, 8, 14, 19}

\* The names the model gives the texts of greeting_templates.
GreetingTemplate ==
    "hi" :> "greeting_templates[hi]" @@
    "hello" :> "greeting_templates[hello]" @@
    "hey" :> "greeting_templates[hey]" @@
    "good morning" :> "greeting_templates[good morning]" @@
    "good afternoon" :> "greeting_templates[good afternoon]" @@
    "good evening" :> "greeting_templates[good evening]" @@
    "howdy" :> "greeting_templates[howdy]" @@
    "greetings" :> "greeting_templates[greetings]"

\* create_enhanced_greeting_response(user_prompt, intent_data) at the given
\* hour: the template chosen for the prompt followed by the next-steps text.
create_enhanced_greeting_response(user_prompt, current_hour) ==
    LET prompt_lower == Strip(Lower(Chars[user_prompt]))
        has(w) == Contains(prompt_lower, Chars[w])
        greeting_templates ==
            {"hi", "hello", "hey", "good morning", "good afternoon", "good evening",
             "howdy", "greetings"}
        time_context ==
            IF 5 <= current_hour /\ current_hour < 12 THEN "time_context morning"
            ELSE IF 12 <= current_hour /\ current_hour < 17 THEN "time_context afternoon"
            ELSE IF 17 <= current_hour /\ current_hour < 21 THEN "time_context evening"
            ELSE "time_context late"
        template(g) == Text(<<GreetingTemplate[g], "next_steps">>, NoJson)
    IN  IF \E g \in greeting_templates : prompt_lower = Chars[g]
        THEN template(CHOOSE g \in greeting_templates : prompt_lower = Chars[g])
        ELSE IF has("morning") THEN template("good morning")
        ELSE IF has("afternoon") THEN template("good afternoon")
        ELSE IF has("evening") THEN template("good evening")
        ELSE IF has("hi") THEN template("hi")
        ELSE IF has("hello") THEN template("hello")
        ELSE IF has("hey") THEN template("hey")
        ELSE IF has("howdy") THEN template("howdy")
        ELSE Text(<<"greeting fallback", time_context, "next_steps">>, NoJson)

\* The text multi mode returns when the classification has no conversation
\* starter of its own.
GenericClarification == "I'd be happy to help enhance your prompt! Could you share more details"

\* len() of the literal texts of the program that the model names rather
\* than spells out: the greeting templates, the fallback greeting without its
\* time context, the four time contexts, next_steps, the generic
\* clarification and the conversation starter of the heuristic.
LiteralLen ==
    "greeting_templates[hi]" :> 350 @@
    "greeting_templates[hello]" :> 328 @@
    "greeting_templates[hey]" :> 328 @@
    "greeting_templates[good morning]" :> 343 @@
    "greeting_templates[good afternoon]" :> 375 @@
    "greeting_templates[good evening]" :> 367 @@
    "greeting_templates[howdy]" :> 307 @@
    "greeting_templates[greetings]" :> 377 @@
    "greeting fallback" :> 340 @@
    "time_context morning" :> 56 @@
    "time_context afternoon" :> 57 @@
    "time_context evening" :> 47 @@
    "time_context late" :> 47 @@
    "next_steps" :> 236 @@
    GenericClarification :> 196 @@
    "I'd be happy to help! Could you provide more details about what you'd like me to help you with?" :> 95

\* len() of one piece of a text, and of a text in prose.
PieceLen(piece) ==
    IF piece \in DOMAIN LiteralLen THEN LiteralLen[piece] ELSE Len(Chars[piece])

TextLen(text) ==
    LET upto[i \in 0..Len(text.prose)] ==
            IF i = 0 THEN 0 ELSE upto[i - 1] + PieceLen(text.prose[i])
    IN  upto[Len(text.prose)]

\* The routing that takes no input for a greeting: every clarification
\* request of single mode is overridden.
ModeRoutingNoGreeting(intent_data, mode) ==
    IF mode = "single" /\ intent_data.suggested_action = "request_clarification"
    THEN [ret |-> "none",
          intent |-> [intent_data EXCEPT
                        !.input_complexity_score = Max(50, @),
                        !.suggested_action = "standard_enhancement"]]
    ELSE IF mode = "multi" /\ intent_data.suggested_action = "request_clarification"
         THEN [ret |-> "clarification", intent |-> intent_data]
         ELSE [ret |-> "none", intent |-> intent_data]

\* The routing that overrides the action of a single-mode clarification
\* request and leaves its score as it is.
ModeRoutingNoFloor(intent_data, mode) ==
    IF mode = "single" /\ intent_data.suggested_action = "request_clarification"
    THEN IF intent_data.input_type = "greeting"
         THEN [ret |-> "greeting", intent |-> intent_data]
         ELSE [ret |-> "none",
               intent |-> [intent_data EXCEPT !.suggested_action = "standard_enhancement"]]
    ELSE IF mode = "multi" /\ intent_data.suggested_action = "request_clarification"
         THEN [ret |-> "clarification", intent |-> intent_data]
         ELSE [ret |-> "none", intent |-> intent_data]

\* The routing without the overrides of single mode: a greeting and a multi
\* mode clarification are returned at once, intent_data is left as it is.
ModeRoutingNoOverride(intent_data, mode) ==
    IF intent_data.suggested_action = "request_clarification" /\ mode \in {"single", "multi"}
    THEN IF mode = "single" /\ intent_data.input_type # "greeting"
         THEN [ret |-> "none", intent |-> intent_data]
         ELSE [ret |-> IF mode = "single" THEN "greeting" ELSE "clarification",
               intent |-> intent_data]
    ELSE [ret |-> "none", intent |-> intent_data]

\* The routing without the multi-mode branch: only single mode is looked at.
ModeRoutingSingleOnly(intent_data, mode) ==
    IF mode = "single" /\ intent_data.suggested_action = "request_clarification"
    THEN IF intent_data.input_type = "greeting"
         THEN [ret |-> "greeting", intent |-> intent_data]
         ELSE [ret |-> "none",
               intent |-> [intent_data EXCEPT
                             !.input_complexity_score = Max(50, @),
                             !.suggested_action = "standard_enhancement"]]
    ELSE [ret |-> "none", intent |-> intent_data]

\* Step 2 of orchestrate_enhancement, the mode-aware routing: what it returns
\* at once ("greeting", "clarification") or "none", and intent_data as it
\* leaves the step.
ModeRouting(intent_data, mode) ==
    LET score == intent_data.input_complexity_score
        action == intent_data.suggested_action
    IN  IF mode = "single" THEN
            IF action = "request_clarification" THEN
                IF intent_data.input_type = "greeting"
                THEN [ret |-> "greeting", intent |-> intent_data]
                ELSE [ret |-> "none",
                      intent |-> [intent_data EXCEPT
                                    !.input_complexity_score = IF score < 50 THEN 50 ELSE score,
                                    !.suggested_action = "standard_enhancement"]]
            ELSE IF action = "basic_enhancement" /\ score < 40
                 THEN [ret |-> "none",
                       intent |-> [intent_data EXCEPT
                                     !.suggested_action = "standard_enhancement",
                                     !.input_complexity_score = Max(50, score)]]
                 ELSE [ret |-> "none", intent |-> intent_data]
        ELSE IF mode = "multi" /\ action = "request_clarification"
             THEN [ret |-> "clarification", intent |-> intent_data]
             ELSE [ret |-> "none", intent |-> intent_data]

\* The start of step 3: single mode upgrades a basic enhancement of a
\* technical, creative or business request to a standard one.
SingleModeUpgrade(intent_data, mode) ==
    IF /\ mode = "single"
       /\ intent_data.suggested_action = "basic_enhancement"
       /\ intent_data.input_complexity_score >= 30
       /\ intent_data.intent_category \in {"technical", "creative", "business"}
    THEN [intent_data EXCEPT !.suggested_action = "standard_enhancement",
                             !.input_complexity_score = Max(50, @)]
    ELSE intent_data

\* The gate of step 4 with the threshold included.
ContextGateInclusive(intent_data) ==
    intent_data.requires_context /\ intent_data.input_complexity_score >= 40

\* The gate of step 4 (domain context) and of step 5 (4-D methodology).
ContextGate(intent_data) ==
    intent_data.requires_context /\ intent_data.input_complexity_score > 40

MethodologyGate(intent_data) == intent_data.input_complexity_score > 50

\* ---------------------------------------------------- model selection ----

\* The model identifiers of ModelConfig that select_model_for_task lists.
ULTRA_FAST_MODEL == "llama-3.1-8b-instant"
BALANCED_MODEL == "meta-llama/llama-4-scout-17b-16e-instruct"
BALANCED_ALT == "gemma2-9b-it"
REASONING_MODEL == "llama-3.3-70b-versatile"
ADVANCED_REASONING == "meta-llama/llama-4-maverick-17b-128e-instruct"
CREATIVE_MODEL == "qwen/qwen3-32b"
ADVANCED_COMPLEX == "moonshotai/kimi-k2-instruct"
SAFETY_MODEL == "meta-llama/llama-guard-4-12b"
SAFETY_FALLBACK == "llama-3.1-8b-instant"
LEGACY_FALLBACK == "llama3-8b-8192"

ModelIds ==
    {ULTRA_FAST_MODEL, BALANCED_MODEL, BALANCED_ALT, REASONING_MODEL, ADVANCED_REASONING,
     CREATIVE_MODEL, ADVANCED_COMPLEX, SAFETY_MODEL, SAFETY_FALLBACK, LEGACY_FALLBACK}

\* ModelConfig._model_availability before any model was tested.
EmptyCache == [m \in {} |-> FALSE]

\* test_model_availability without the look-up of lines 86-87: the test
\* call is made at every invocation and its outcome overwrites the entry.
TestModelAvailabilityUncached(model_name, cache, avail) ==
    [value |-> model_name \in avail,
     cache |-> (model_name :> (model_name \in avail)) @@ cache,
     probed |-> TRUE]

\* ModelConfig.test_model_availability: the cached answer if there is one,
\* otherwise the outcome of the test call (any exception of it means
\* unavailable), which is cached.  `avail` are the models whose test call
\* succeeds; `probed` tells whether the test call was made.  The function
\* has no suspension point (the client's call is synchronous), so no other
\* coroutine runs between the look-up and the write.
test_model_availability(model_name, cache, avail) ==
    IF model_name \in DOMAIN cache
    THEN [value |-> cache[model_name], cache |-> cache, probed |-> FALSE]
    ELSE [value |-> model_name \in avail,
          cache |-> cache @@ (model_name :> (model_name \in avail)),
          probed |-> TRUE]

RECURSIVE BestFrom(_, _, _, _)

\* One iteration of the loop of get_best_available_model, `t` being the
\* answer of test_model_availability for the i-th preference.
BestStep(preferred_models, i, t, avail) ==
    IF t.value
    THEN [out |-> Return(preferred_models[i]), cache |-> t.cache]
    ELSE BestFrom(preferred_models, i + 1, t.cache, avail)

\* The loop of get_best_available_model from the i-th preference on.  After
\* the loop the function reads cls.FALLBACK_MODEL, an attribute ModelConfig
\* does not define: AttributeError.
BestFrom(preferred_models, i, cache, avail) ==
    IF i > Len(preferred_models)
    THEN [out |-> Raise("AttributeError",
                        "type object 'ModelConfig' has no attribute 'FALLBACK_MODEL'"),
          cache |-> cache]
    ELSE BestStep(preferred_models, i,
                  test_model_availability(preferred_models[i], cache, avail), avail)

RECURSIVE ProbedFrom(_, _, _, _)

\* The models the loop of get_best_available_model makes a test call for,
\* from the i-th preference on, `t` being the answer for the i-th.
ProbedStep(preferred_models, i, t, avail) ==
    (IF t.probed THEN <<preferred_models[i]>> ELSE <<>>)
    \o (IF t.value THEN <<>> ELSE ProbedFrom(preferred_models, i + 1, t.cache, avail))

ProbedFrom(preferred_models, i, cache, avail) ==
    IF i > Len(preferred_models)
    THEN <<>>
    ELSE ProbedStep(preferred_models, i,
                    test_model_availability(preferred_models[i], cache, avail), avail)

\* The number of test calls made for each model, counted up to two, after
\* the test calls of `log`.
CountProbes(count, log) ==
    [m \in DOMAIN count |->
        Min(2, count[m] + Cardinality({i \in DOMAIN log : log[i] = m}))]

\* ModelConfig.get_best_available_model.
get_best_available_model(preferred_models, cache, avail) ==
    BestFrom(preferred_models, 1, cache, avail)

\* The preference list select_model_for_task builds (complexity_score in
\* hundredths).
PreferredModels(task_type, complexity_score, agent_type, prefer_speed) ==
    IF task_type = "intent_classification" \/ agent_type = "classifier"
    THEN IF prefer_speed
         THEN <<ULTRA_FAST_MODEL, BALANCED_MODEL, LEGACY_FALLBACK>>
         ELSE <<BALANCED_MODEL, ULTRA_FAST_MODEL, LEGACY_FALLBACK>>
    ELSE IF task_type = "safety" \/ agent_type = "guardrail"
    THEN <<SAFETY_MODEL, SAFETY_FALLBACK, ULTRA_FAST_MODEL, LEGACY_FALLBACK>>
    ELSE IF (task_type = "enhancement" /\ complexity_score > 70)
            \/ agent_type = "advanced_enhancer"
    THEN IF prefer_speed
         THEN <<ADVANCED_COMPLEX, CREATIVE_MODEL, REASONING_MODEL, ADVANCED_REASONING,
                LEGACY_FALLBACK>>
         ELSE <<ADVANCED_COMPLEX, REASONING_MODEL, CREATIVE_MODEL, ADVANCED_REASONING,
                LEGACY_FALLBACK>>
    ELSE IF task_type \in {"creative_enhancement", "creative"}
            \/ (task_type = "enhancement" /\ complexity_score > 60)
    THEN <<CREATIVE_MODEL, ADVANCED_COMPLEX, REASONING_MODEL, ADVANCED_REASONING,
           BALANCED_MODEL, LEGACY_FALLBACK>>
    ELSE IF task_type \in {"context", "supporting_content", "methodology"}
    THEN <<BALANCED_MODEL, REASONING_MODEL, ULTRA_FAST_MODEL, LEGACY_FALLBACK>>
    ELSE IF task_type = "enhancement" /\ complexity_score > 30
    THEN <<BALANCED_MODEL, REASONING_MODEL, ULTRA_FAST_MODEL, LEGACY_FALLBACK>>
    ELSE IF task_type = "basic_enhancement" \/ complexity_score <= 30
    THEN <<ULTRA_FAST_MODEL, BALANCED_ALT, BALANCED_MODEL, LEGACY_FALLBACK>>
    ELSE <<BALANCED_MODEL, REASONING_MODEL, ULTRA_FAST_MODEL, LEGACY_FALLBACK>>

\* What one call of select_model_for_task leaves: the list it built, its
\* outcome and the availability cache.
Selection(preferred_models, out, cache) ==
    [preferred |-> preferred_models, out |-> out, cache |-> cache]

\* The try block of select_model_for_task with no handler around it.
SelectUncaught(preferred_models, best) ==
    Selection(preferred_models, best.out, best.cache)

\* The handler of select_model_for_task: any exception of the try block is
\* answered with ModelConfig.LEGACY_FALLBACK.
SelectCaught(preferred_models, best) ==
    Selection(preferred_models,
              IF best.out.kind = "raise" THEN Return(LEGACY_FALLBACK) ELSE best.out,
              best.cache)

\* select_model_for_task, called with a number for complexity_score.
SelectModel(task_type, complexity_score, agent_type, prefer_speed, cache, avail) ==
    SelectCaught(
      PreferredModels(task_type, complexity_score, agent_type, prefer_speed),
      get_best_available_model(
        PreferredModels(task_type, complexity_score, agent_type, prefer_speed),
        cache, avail))

\* The identifier select_model_for_task returns when the models in `avail`
\* are the available ones.  The cache only repeats the answers of the test
\* calls, so the identifier does not depend on it.
select_model_for_task(task_type, complexity_score, agent_type, prefer_speed, avail) ==
    SelectModel(task_type, complexity_score, agent_type, prefer_speed,
                EmptyCache, avail).out.value

\* round(a / b, 1) in tenths, with the quotient cut off instead of rounded.
PyTrunc1(a, b) == (10 * a) \div b

\* round(a / b, 1) in tenths, for a quotient a / b that a float holds exactly
\* (the prompts of the model have 2 and 16 characters): the nearest tenth,
\* the even one of two equally near.
PyRound1(a, b) ==
    IF 2 * ((10 * a) % b) < b THEN (10 * a) \div b
    ELSE IF 2 * ((10 * a) % b) > b THEN (10 * a) \div b + 1
    ELSE IF ((10 * a) \div b) % 2 = 0 THEN (10 * a) \div b
    ELSE (10 * a) \div b + 1

\* The "models_used" entry of a returned dictionary: absent, or the mapping
\* of the standard path, which holds None for a stage that did not run.
NoModels == [present |-> FALSE, entries |-> [k \in {} |-> PyNone]]

ModelsUsed(classification_model, context_model, methodology_model, enhancement_model) ==
    [present |-> TRUE,
     entries |-> [classification |-> classification_model,
                  context |-> context_model,
                  methodology |-> methodology_model,
                  enhancement |-> enhancement_model]]

\* The "models_used" of the standard path: the classifier's model, the
\* models selected inside the context and methodology gates (None before),
\* and the enhancer's model.
StandardModels(intent_data, research, methodology, avail) ==
    ModelsUsed(
      select_model_for_task("intent_classification", 50, "classifier", FALSE, avail),
      IF research
      THEN select_model_for_task("context", intent_data.input_complexity_score,
                                 "general", FALSE, avail)
      ELSE PyNone,
      IF methodology
      THEN select_model_for_task("methodology", intent_data.input_complexity_score,
                                 "general", FALSE, avail)
      ELSE PyNone,
      select_model_for_task("enhancement", intent_data.input_complexity_score,
                            "advanced_enhancer", FALSE, avail))

\* The dictionary orchestrate_enhancement returns; "model_used" is None when
\* the dictionary has no such key, and enhancement_ratio is in tenths.
Result(user_prompt, enhanced_prompt, intent_data, enhancement_type, research, methodology, process_steps, models_used, model_used, mode) ==
    [enhanced_prompt |-> enhanced_prompt,
     intent_analysis |-> intent_data,
     enhancement_type |-> enhancement_type,
     domain_research_performed |-> research,
     methodology_applied |-> methodology,
     process_steps |-> process_steps,
     enhancement_ratio |-> PyRound1(TextLen(enhanced_prompt), Len(Chars[user_prompt])),
     complexity_score |-> intent_data.input_complexity_score,
     models_used |-> models_used,
     model_used |-> model_used,
     mode |-> mode]

\* The process_steps built with the context step appended unconditionally.
ProcessStepsAlwaysResearch(research, methodology) ==
    <<"intent_classification", "domain_context_research">>
    \o (IF methodology THEN <<"4d_methodology_application">> ELSE <<>>)
    \o <<"proportional_prompt_optimization">>

\* The process_steps of the standard/advanced path.
ProcessSteps(research, methodology) ==
    <<"intent_classification">>
    \o (IF research THEN <<"domain_context_research">> ELSE <<>>)
    \o (IF methodology THEN <<"4d_methodology_application">> ELSE <<>>)
    \o <<"proportional_prompt_optimization">>

\* ------------------------------------------------- enhance_prompt ----

\* The HTTPException the endpoint answers with, or the 200 response.
HTTPException(status_code, detail) == [status |-> status_code, detail |-> detail]

\* `not request.prompt or not request.prompt.strip()`
IsBlank(prompt) == \A i \in 1..Len(Chars[prompt]) : Chars[prompt][i] = " "

\* The handlers of enhance_prompt for an exception raised inside its try
\* block: the guardrail's exception answers 400, every other exception, the
\* HTTPException of the validation included, answers 500.
HandleException(e) ==
    IF e.type = "InputGuardrailTripwireTriggered"
    THEN HTTPException(400, <<"Content safety check failed: ", e.msg>>)
    ELSE HTTPException(500, <<"Internal server error">>)

\* ------------------------------------------------- upstream service ----

\* The most stages of one request whose upstream calls are made to fail.
MaxFaultyStages == 1

\* The stages of a request that issue upstream generation calls.
Stages == {"classify", "context", "methodology", "safety", "enhance", "basic"}

\* What the upstream service does to the calls of one stage: the first
\* `fails` calls raise an exception with message `msg`, the later ones answer.
NoFault == [fails |-> 0, msg |-> ""]

FaultMessages == {"429 Too Many Requests", "Invalid API Key"}

Faults == {[fails |-> k, msg |-> m] : k \in 1..MaxFails, m \in FaultMessages}

\* The complexity scores (hundredths) and the actions the classifier answers.
Scores == {10, 30, 40, 45, 50, 65, 90}

EnumeratedActions ==
    {"request_clarification", "basic_enhancement", "standard_enhancement",
     "advanced_enhancement"}

AnsweredActions == EnumeratedActions \cup {"clarification_request"}

\* A classification object as the classifier's instructions ask for it.
IntentObject(category, score, rc, action, starter, itype) ==
    JObj([NoFields EXCEPT
            !["intent_category"] = JStr(category),
            !["confidence"] = JNum(90),
            !["specific_domain"] = JNull,
            !["complexity_level"] = JStr("basic"),
            !["requires_context"] = JBool(rc),
            !["input_complexity_score"] = score,
            !["enhancement_recommended"] = JBool(TRUE),
            !["suggested_action"] = action,
            !["conversation_starter"] = starter,
            !["input_type"] = JStr(itype)])

WithField(obj, key, v) == JObj([obj.f EXCEPT ![key] = v])

WellFormedObjects ==
    {IntentObject("other", JNum(sc), rc, JStr(a), JNull, "minimal") :
        sc \in Scores, rc \in BOOLEAN, a \in AnsweredActions}
    \cup {IntentObject("technical", JNum(sc), rc, JStr("basic_enhancement"), JNull, "minimal") :
        sc \in Scores, rc \in BOOLEAN}
    \cup {IntentObject("greeting", JNum(sc), FALSE, JStr("request_clarification"), st, "greeting") :
        sc \in {10, 65}, st \in {JNull, JStr("What would you like to create today?")}}
    \cup {IntentObject("other", JNum(10), FALSE, JStr("request_clarification"), st, "minimal") :
        st \in {JStr(""), JStr("What would you like to create today?")}}

\* JSON that is not an object, and objects with missing, null or ill-typed fields.
IllFormedJson ==
    LET base == IntentObject("other", JNum(65), TRUE, JStr("standard_enhancement"), JNull, "minimal")
    IN  {JArray(2), JNumber(0), JObj(NoFields),
         JObj([NoFields EXCEPT !["intent_category"] = JStr("technical")]),
         WithField(base, "confidence", JNull),
         WithField(base, "confidence", JStr("high")),
         WithField(base, "input_complexity_score", JNull),
         WithField(base, "input_complexity_score", JStr("0.8")),
         WithField(base, "suggested_action", JNull)}

\* Objects whose input_complexity_score is a number outside 0.0-1.0.
OutOfRangeObjects ==
    {IntentObject("other", JNum(sc), FALSE, JStr("basic_enhancement"), JNull, "minimal") :
        sc \in {-20, 150}}

\* One classification object written inside prose and code-fence markers.
EmbeddedLayouts ==
    LET object(multiline) ==
            Token("object", "",
                  IntentObject("technical", JNum(65), FALSE, JStr("basic_enhancement"),
                               JNull, "minimal"),
                  multiline)
        prose(piece) == Token("prose", piece, NoJson, FALSE)
        mark(k) == Token(k, "", NoJson, FALSE)
    IN  {<<mark("fence_json"), mark("nl"), object(TRUE), mark("nl"), mark("fence")>>,
         <<mark("fence"), mark("nl"), object(TRUE), mark("nl"), mark("fence")>>,
         <<prose("Here is the analysis:"), mark("nl"), object(TRUE)>>,
         <<prose("Fill {placeholders} later:"), mark("nl"), object(FALSE), mark("nl")>>,
         <<prose("Fill {placeholders} later:"), object(FALSE)>>,
         <<prose("Fill {placeholders} later:"), mark("nl"), object(TRUE)>>}

ClassifierProse ==
    {"This program has code", "program code", "I cannot comply", "Write a story",
     "business plan"}

\* The texts the upstream service answers the classifier with.
ClassifierResponses ==
    {Text(<<>>, j) : j \in WellFormedObjects \cup IllFormedJson \cup OutOfRangeObjects}
    \cup {Prose(p) : p \in ClassifierProse}
    \cup {FromLayout(l) : l \in EmbeddedLayouts}

\* A safety object as the guardrail's instructions ask for it.
SafetyObject(flagged, recommendation, confidence) ==
    JObj([NoFields EXCEPT
            !["flagged"] = flagged,
            !["recommendation"] = recommendation,
            !["confidence"] = confidence])

\* The texts the upstream service answers the safety agent with.
SafetyResponses ==
    {Text(<<>>, SafetyObject(fl, rec, JNum(95))) :
        fl \in {JBool(TRUE), JBool(FALSE), JAbsent},
        rec \in {JStr("allow"), JStr("review"), JStr("block"), JAbsent}}
    \cup {Text(<<>>, SafetyObject(JBool(TRUE), JStr("block"), c)) : c \in {JStr("high"), JNull}}
    \cup {Prose("unsafe"), Text(<<>>, JArray(2))}

\* The texts the upstream service answers a stage with.
Responses(stage) ==
    CASE stage = "classify" -> ClassifierResponses
      [] stage = "safety" -> SafetyResponses
      [] stage = "context" -> {Prose("Domain context")}
      [] stage = "methodology" -> {Prose("4-D guidance")}
      [] OTHER -> {Prose("Enhanced prompt text"), Prose("")}

\* The requests the endpoint is sent.
Prompts == {"hi", "How to Hack wifi", "   ", ""}

Modes == {"single", "multi", "batch"}

\* ------------------------------------------------------------ state ----

VARIABLES
    script,     \* what the wrapped operation does at its 1st, 2nd, ... invocation
    rl,         \* the call of rate_limited_request in progress
    rlg,        \* the call of rate_limited_request inside the safety guardrail, while it runs
    req,        \* the request enhance_prompt is serving: prompt and mode
    pc,         \* where the request is: idle, a stage, or responded
    plans,      \* for each stage, what the upstream service does to its calls
    calls,      \* for each stage, the upstream generation calls issued
    slept,      \* for each stage, the backoff sleeps made around its calls
    outs,       \* for each stage the orchestrator calls itself, the AgentResult it got
    intent0,    \* the classification as parse_intent_json returned it
    intent,     \* intent_data as the orchestrator holds it
    guard,      \* the output of the safety guardrail
    research_performed,   \* the local flag of step 4
    methodology_applied,  \* the local flag of step 5
    result,     \* the dictionary orchestrate_enhancement returned
    raised,     \* the exception that left orchestrate_enhancement
    http,       \* the response of enhance_prompt
    stored,     \* the number of documents inserted in db.prompt_enhancements
    available,  \* the models whose availability test succeeds
    model_availability,   \* ModelConfig._model_availability
    selected,   \* the last call of select_model_for_task: its list and outcome
    probes,     \* for each model, the test calls made for it (counted up to two)
    cancel      \* the stage during which the request's task was cancelled, or "none"

vars ==
    <<script, rl, rlg, req, pc, plans, calls, slept, outs, intent0, intent, guard,
      research_performed, methodology_applied, result, raised, http, stored,
      available, model_availability, selected, probes, cancel>>

selVars == <<available, model_availability, selected, probes>>

\* The state of the endpoint and of the orchestration before a request.
NoRequest == [prompt |-> "", mode |-> ""]
NoResult == AgentResult(Prose(""), FALSE)
NoIntent == HeuristicRecord("", 0, 0)
NoDict ==
    [enhanced_prompt |-> Prose(""), intent_analysis |-> NoIntent, enhancement_type |-> "",
     domain_research_performed |-> FALSE, methodology_applied |-> FALSE,
     process_steps |-> <<>>, enhancement_ratio |-> 0, complexity_score |-> 0,
     models_used |-> NoModels, model_used |-> PyNone, mode |-> ""]
NoException == Raise("", "")
NoResponse == [status |-> 0, detail |-> <<>>]
NoSelection == [preferred |-> <<>>, out |-> Return("")]

Idle ==
    /\ rlg = IdleCall
    /\ req = NoRequest
    /\ pc = "idle"
    /\ plans = [s \in Stages |-> NoFault]
    /\ calls = [s \in Stages |-> 0]
    /\ slept = [s \in Stages |-> 0]
    /\ outs = [s \in Stages |-> NoResult]
    /\ intent0 = NoIntent
    /\ intent = NoIntent
    /\ guard = NoGuardrailOutput
    /\ research_performed = FALSE
    /\ methodology_applied = FALSE
    /\ result = NoDict
    /\ raised = NoException
    /\ http = NoResponse
    /\ stored = 0
    /\ cancel = "none"
    /\ model_availability = EmptyCache
    /\ selected = NoSelection
    /\ probes = [m \in ModelIds |-> 0]

orchVars ==
    <<rlg, req, pc, plans, calls, slept, outs, intent0, intent, guard,
      research_performed, methodology_applied, result, raised, http, stored, cancel>>

\* ------------------------------------------ the retry executor alone ----

\* An arbitrary wrapped operation: at each invocation it returns a value or
\* raises an exception with one of the upstream messages.
FuncOutcomes ==
    {Return("value")} \cup {Raise("Exception", m) : m \in UpstreamErrors}

ScriptLen == MAX_RETRIES + 1

InitRetry ==
    /\ script \in [1..ScriptLen -> FuncOutcomes]
    /\ rl = NewCall
    /\ available = ModelIds
    /\ Idle

\* rate_limited_request(func): one iteration per step.
RetryStep ==
    /\ rl.status = "active"
    /\ rl.calls < ScriptLen
    /\ \E jitter \in Jitters :
         rl' = RateLimitedAttempt(rl, script[rl.calls + 1], jitter)
    /\ UNCHANGED <<script, orchVars, selVars>>

NextRetry == RetryStep

SpecRetry == InitRetry /\ [][NextRetry]_vars

\* ------------------------------------------- model selection alone ----

\* The arguments select_model_for_task is called with.
TaskTypes ==
    {"intent_classification", "safety", "enhancement", "creative", "context",
     "basic_enhancement", "technical"}

AgentTypes == {"general", "classifier", "guardrail", "advanced_enhancer"}

Complexities == {30, 50, 65, 90}

\* The sets of available models selection is exercised under: at most one
\* model is available, or at most one is not.
SelectAvailabilities ==
    {a \in SUBSET ModelIds : Cardinality(a) <= 1 \/ Cardinality(ModelIds \ a) <= 1}

InitSelect ==
    /\ script = <<>>
    /\ rl = IdleCall
    /\ available \in SelectAvailabilities
    /\ Idle

\* The call select_model_for_task(task_type, complexity_score, agent_type,
\* prefer_speed), from its first statement to its return.
SelectCall(task_type, complexity_score, agent_type, prefer_speed) ==
    LET s == SelectModel(task_type, complexity_score, agent_type, prefer_speed,
                         model_availability, available)
    IN  /\ selected' = [preferred |-> s.preferred, out |-> s.out]
        /\ model_availability' = s.cache
        /\ probes' = CountProbes(probes, ProbedFrom(s.preferred, 1,
                                                    model_availability, available))
        /\ UNCHANGED <<script, rl, orchVars, available>>

\* One call of select_model_for_task.
SelectModelForTask ==
    \E task_type \in TaskTypes, complexity_score \in Complexities,
       agent_type \in AgentTypes, prefer_speed \in BOOLEAN :
      SelectCall(task_type, complexity_score, agent_type, prefer_speed)

NextSelect == SelectModelForTask

SpecSelect == InitSelect /\ [][NextSelect]_vars

\* --------------------------------- the first selection of a process ----

\* The first call of select_model_for_task of a process, kept with its
\* arguments.
SelectFirst ==
    /\ selected = NoSelection
    /\ \E task_type \in TaskTypes, complexity_score \in Complexities,
          agent_type \in AgentTypes, prefer_speed \in BOOLEAN :
         LET s == SelectModel(task_type, complexity_score, agent_type, prefer_speed,
                              model_availability, available)
         IN  /\ selected' = [preferred |-> s.preferred, out |-> s.out,
                             task_type |-> task_type,
                             complexity_score |-> complexity_score,
                             agent_type |-> agent_type,
                             prefer_speed |-> prefer_speed]
             /\ model_availability' = s.cache
             /\ probes' = CountProbes(probes, ProbedFrom(s.preferred, 1,
                                                         model_availability, available))
    /\ UNCHANGED <<script, rl, orchVars, available>>

NextFirst == SelectFirst

SpecFirst == InitSelect /\ [][NextFirst]_vars

\* ------------------------------- selections of concurrent requests ----

\* The availabilities the upstream service alternates between while
\* requests are served: every model answers its test call, or none does.
ProbeAvailabilities == {ModelIds, {}}

InitProbe ==
    /\ script = <<>>
    /\ rl = IdleCall
    /\ available \in ProbeAvailabilities
    /\ Idle

\* The upstream service changes which models answer.
AvailabilityChanges ==
    /\ available' \in ProbeAvailabilities \ {available}
    /\ UNCHANGED <<script, rl, orchVars, model_availability, selected, probes>>

\* The selection calls a request makes: for the classifier, the safety
\* agent, the context and methodology agents, the enhancer and the basic
\* enhancer.
RequestCalls ==
    {<<"intent_classification", 50, "classifier", FALSE>>,
     <<"safety", 50, "guardrail", TRUE>>}
    \cup {<<t, c, "general", FALSE>> :
            t \in {"context", "methodology", "basic_enhancement"}, c \in Complexities}
    \cup {<<"enhancement", c, "advanced_enhancer", FALSE>> : c \in Complexities}

\* One selection call of one of the requests in flight.
SelectByRequest ==
    \E call \in RequestCalls : SelectCall(call[1], call[2], call[3], call[4])

\* The selection calls of the requests in flight, in any order: a call runs
\* from its first statement to its return without suspending.
NextProbe ==
    \/ SelectByRequest
    \/ AvailabilityChanges

SpecProbe == InitProbe /\ [][NextProbe]_vars

\* ------------------------------------------------------ the request ----

\* What the upstream service does at the next generation call of a stage.
Upstream(stage) ==
    IF calls[stage] < plans[stage].fails
    THEN {Raise("Exception", plans[stage].msg)}
    ELSE {Return(t) : t \in Responses(stage)}

\* The plans the upstream service may have for one more stage when `used`
\* stages have a failing one.
PlansLeft(used) == {NoFault} \cup (IF used < MaxFaultyStages THEN Faults ELSE {})

FaultyStages == Cardinality({s \in Stages : plans[s] # NoFault})

\* The orchestrator reaches the call of a stage's agent: a new call of
\* rate_limited_request starts (for the enhancer, the guardrail's comes first).
Enter(stage) ==
    /\ pc' = stage
    /\ rl' = NewCall
    /\ rlg' = IF stage = "safety" THEN NewCall ELSE IdleCall
    /\ IF stage = "safety"
       THEN \E p \in PlansLeft(FaultyStages) :
              \E q \in PlansLeft(FaultyStages + (IF p = NoFault THEN 0 ELSE 1)) :
                plans' = [plans EXCEPT !["safety"] = p, !["enhance"] = q]
       ELSE \E p \in PlansLeft(FaultyStages) : plans' = [plans EXCEPT ![stage] = p]

\* orchestrate_enhancement returns `res`: enhance_prompt builds the response,
\* inserts it in the database and answers 200. The insertion is the first
\* await of the request that suspends its task (the agents' upstream calls
\* are synchronous, and rate_limited_request never sleeps here), so a
\* cancellation requested earlier is delivered there: CancelledError is not
\* an Exception, no handler catches it, nothing is answered, and the
\* insertion already handed to the driver may or may not be carried out.
Finish(res) ==
    /\ result' = res
    /\ UNCHANGED raised
    /\ IF cancel = "none"
       THEN /\ pc' = "responded"
            /\ http' = [status |-> 200, detail |-> <<>>]
            /\ stored' = stored + 1
       ELSE /\ pc' = "cancelled"
            /\ UNCHANGED http
            /\ stored' \in {stored, stored + 1}

\* The exception `e` leaves orchestrate_enhancement: enhance_prompt answers
\* with the HTTPException of its handlers and stores nothing. The handlers
\* await nothing: when the task was cancelled, whether the answer is still
\* sent is decided outside enhance_prompt.
Fail(e) ==
    /\ raised' = e
    /\ UNCHANGED <<result, stored>>
    /\ \/ /\ pc' = "responded"
          /\ http' = HandleException(e)
       \/ /\ cancel # "none"
          /\ pc' = "cancelled"
          /\ UNCHANGED http

\* The stage that follows classification and routing, or the context stage,
\* for intent_data as the routing left it.
AfterRouting(i) ==
    IF i.suggested_action = "basic_enhancement" THEN "basic"
    ELSE IF ContextGate(i) THEN "context"
    ELSE IF MethodologyGate(i) THEN "methodology"
    ELSE "safety"

\* One invocation of Runner.run for `stage` inside the call `r` of
\* rate_limited_request, the agent having no guardrail: the calls the
\* executor may be left in.
Invoke(stage, r) ==
    {RateLimitedAttempt(r, RunnerRun(up), jitter) : up \in Upstream(stage), jitter \in Jitters}

\* POST /api/enhance: the prompt is validated (the HTTPException raised for
\* an empty prompt is raised inside the try block) and orchestration starts.
EnhancePrompt ==
    /\ pc = "idle"
    /\ \E prompt \in Prompts, mode \in Modes :
         /\ req' = [prompt |-> prompt, mode |-> mode]
         /\ IF IsBlank(prompt)
            THEN /\ pc' = "responded"
                 /\ http' = HandleException(Raise("HTTPException", "Prompt cannot be empty"))
                 /\ raised' = Raise("HTTPException", "Prompt cannot be empty")
                 /\ UNCHANGED <<rl, rlg, plans>>
            ELSE /\ Enter("classify")
                 /\ UNCHANGED <<http, raised>>
    /\ UNCHANGED <<selVars, cancel, script, calls, slept, outs, intent0, intent, guard,
                   research_performed, methodology_applied, result, stored>>

\* Steps 1 to 3 of orchestrate_enhancement: one invocation of the classifier
\* under rate_limited_request and, when the call has returned, the parse of
\* its text and the routing up to the next agent's call or the return.
Classify ==
    /\ pc = "classify"
    /\ \E r \in Invoke("classify", rl) :
         /\ calls' = [calls EXCEPT !["classify"] = @ + 1]
         /\ slept' = [slept EXCEPT !["classify"] = Len(r.sleeps)]
         /\ CASE r.status = "active" ->
                   /\ rl' = r
                   /\ UNCHANGED <<rlg, pc, plans, outs, intent0, intent, result, raised, http, stored>>
              [] r.status = "raised" ->
                   /\ rl' = r
                   /\ Fail(r.error)
                   /\ UNCHANGED <<rlg, plans, outs, intent0, intent>>
              [] OTHER ->
                   LET parsed == parse_intent_json(r.value.final_output) IN
                   /\ outs' = [outs EXCEPT !["classify"] = r.value]
                   /\ IF parsed.kind = "raise"
                      THEN /\ rl' = r
                           /\ Fail(parsed)
                           /\ UNCHANGED <<rlg, plans, intent0, intent>>
                      ELSE LET routed == ModeRouting(parsed.value, req.mode)
                               i == SingleModeUpgrade(routed.intent, req.mode)
                           IN  /\ intent0' = parsed.value
                               /\ CASE routed.ret = "greeting" ->
                                         /\ rl' = r
                                         /\ intent' = routed.intent
                                         /\ \E hour \in Hours :
                                              Finish(Result(
                                                req.prompt,
                                                create_enhanced_greeting_response(req.prompt, hour),
                                                routed.intent, "enhanced_greeting", FALSE, TRUE,
                                                <<"intent_classification",
                                                  "single_mode_greeting_enhancement">>,
                                                NoModels, "greeting_template", req.mode))
                                         /\ UNCHANGED <<rlg, plans>>
                                    [] routed.ret = "clarification" ->
                                         /\ rl' = r
                                         /\ intent' = routed.intent
                                         /\ Finish(Result(
                                              req.prompt,
                                              IF routed.intent.conversation_starter \in {PyNone, ""}
                                              THEN Prose(GenericClarification)
                                              ELSE Prose(routed.intent.conversation_starter),
                                              routed.intent, "clarification_request", FALSE, TRUE,
                                              <<"intent_classification", "clarification_routing">>,
                                              NoModels, PyNone, req.mode))
                                         /\ UNCHANGED <<rlg, plans>>
                                    [] OTHER ->
                                         /\ intent' = i
                                         /\ Enter(AfterRouting(i))
                                         /\ UNCHANGED <<result, raised, http, stored>>
    /\ UNCHANGED <<selVars, cancel, script, req, guard, research_performed, methodology_applied>>

\* Step 4, the domain context: one invocation of the context agent and, when
\* the call has returned, the way on to the methodology or the enhancer.
Context ==
    /\ pc = "context"
    /\ \E r \in Invoke("context", rl) :
         /\ calls' = [calls EXCEPT !["context"] = @ + 1]
         /\ slept' = [slept EXCEPT !["context"] = Len(r.sleeps)]
         /\ CASE r.status = "active" ->
                   /\ rl' = r
                   /\ UNCHANGED <<rlg, pc, plans, outs, research_performed, raised, http>>
              [] r.status = "raised" ->
                   /\ rl' = r
                   /\ Fail(r.error)
                   /\ UNCHANGED <<rlg, plans, outs, research_performed>>
              [] OTHER ->
                   /\ outs' = [outs EXCEPT !["context"] = r.value]
                   /\ research_performed' = TRUE
                   /\ Enter(IF MethodologyGate(intent) THEN "methodology" ELSE "safety")
                   /\ UNCHANGED <<raised, http>>
    /\ UNCHANGED <<selVars, cancel, script, req, intent0, intent, guard, methodology_applied, result, stored>>

\* Step 5, the 4-D methodology: one invocation of the methodology agent and,
\* when the call has returned, the way on to the enhancer.
Methodology ==
    /\ pc = "methodology"
    /\ \E r \in Invoke("methodology", rl) :
         /\ calls' = [calls EXCEPT !["methodology"] = @ + 1]
         /\ slept' = [slept EXCEPT !["methodology"] = Len(r.sleeps)]
         /\ CASE r.status = "active" ->
                   /\ rl' = r
                   /\ UNCHANGED <<rlg, pc, plans, outs, methodology_applied, raised, http>>
              [] r.status = "raised" ->
                   /\ rl' = r
                   /\ Fail(r.error)
                   /\ UNCHANGED <<rlg, plans, outs, methodology_applied>>
              [] OTHER ->
                   /\ outs' = [outs EXCEPT !["methodology"] = r.value]
                   /\ methodology_applied' = TRUE
                   /\ Enter("safety")
                   /\ UNCHANGED <<raised, http>>
    /\ UNCHANGED <<selVars, cancel, script, req, intent0, intent, guard, research_performed, result, stored>>

\* The basic path: one invocation of the basic enhancer (an agent without
\* guardrail) and, when the call has returned, the return of the result.
Basic ==
    /\ pc = "basic"
    /\ \E r \in Invoke("basic", rl) :
         /\ rl' = r
         /\ calls' = [calls EXCEPT !["basic"] = @ + 1]
         /\ slept' = [slept EXCEPT !["basic"] = Len(r.sleeps)]
         /\ CASE r.status = "active" ->
                   UNCHANGED <<pc, outs, result, raised, http, stored>>
              [] r.status = "raised" ->
                   /\ Fail(r.error)
                   /\ UNCHANGED outs
              [] OTHER ->
                   /\ outs' = [outs EXCEPT !["basic"] = r.value]
                   /\ Finish(Result(req.prompt, r.value.final_output, intent,
                                    "basic_enhancement", FALSE, TRUE,
                                    <<"intent_classification", "basic_enhancement">>,
                                    NoModels,
                                    select_model_for_task("basic_enhancement",
                                                          intent.input_complexity_score,
                                                          "general", FALSE, available),
                                    req.mode))
    /\ UNCHANGED <<selVars, cancel, script, rlg, req, plans, intent0, intent, guard,
                   research_performed, methodology_applied>>

\* Steps 6 and 7 up to the enhancer's generation call: Runner.run invokes
\* enhancer_agent.process, which runs the safety guardrail first.  One
\* invocation of the safety agent under the guardrail's rate_limited_request;
\* when that call has ended the guardrail's output is computed, and a set
\* tripwire raises InputGuardrailTripwireTriggered through Runner.run into the
\* enhancer's rate_limited_request.
Safety ==
    /\ pc = "safety"
    /\ \E g \in Invoke("safety", rlg) :
         /\ calls' = [calls EXCEPT !["safety"] = @ + 1]
         /\ CASE g.status = "active" ->
                   /\ rlg' = g
                   /\ slept' = [slept EXCEPT !["safety"] = Len(g.sleeps)]
                   /\ UNCHANGED <<rl, pc, guard, raised, http>>
              [] OTHER ->
                   LET ran == IF g.status = "returned" THEN Return(g.value) ELSE g.error
                       out == enhanced_safety_guardrail(ran, req.prompt)
                   IN  /\ guard' = out
                       /\ IF out.tripwire_triggered
                          THEN \E jitter \in Jitters :
                                 LET r == RateLimitedAttempt(rl, RunnerRun(Tripwire), jitter) IN
                                 /\ rl' = r
                                 /\ slept' = [slept EXCEPT !["safety"] = Len(g.sleeps),
                                                           !["enhance"] = Len(r.sleeps)]
                                 /\ IF r.status = "raised"
                                    THEN /\ rlg' = IdleCall
                                         /\ Fail(r.error)
                                    ELSE /\ rlg' = NewCall
                                         /\ UNCHANGED <<pc, raised, http>>
                          ELSE /\ rlg' = IdleCall
                               /\ pc' = "enhance"
                               /\ slept' = [slept EXCEPT !["safety"] = Len(g.sleeps)]
                               /\ UNCHANGED <<rl, raised, http>>
    /\ UNCHANGED <<selVars, cancel, script, req, plans, outs, intent0, intent,
                   research_performed, methodology_applied, result, stored>>

\* Step 7, the enhancer's generation call: the guardrail has passed, the
\* text is generated and, when rate_limited_request has returned, the result
\* is assembled and returned.  A retry invokes Runner.run again, guardrail
\* first.
Enhance ==
    /\ pc = "enhance"
    /\ \E r \in Invoke("enhance", rl) :
         /\ rl' = r
         /\ calls' = [calls EXCEPT !["enhance"] = @ + 1]
         /\ slept' = [slept EXCEPT !["enhance"] = Len(r.sleeps)]
         /\ CASE r.status = "active" ->
                   /\ pc' = "safety"
                   /\ rlg' = NewCall
                   /\ UNCHANGED <<outs, result, raised, http, stored>>
              [] r.status = "raised" ->
                   /\ Fail(r.error)
                   /\ UNCHANGED <<rlg, outs>>
              [] OTHER ->
                   /\ outs' = [outs EXCEPT !["enhance"] = r.value]
                   /\ Finish(Result(req.prompt, r.value.final_output, intent,
                                    intent.suggested_action,
                                    research_performed, methodology_applied,
                                    ProcessSteps(research_performed, methodology_applied),
                                    StandardModels(intent, research_performed,
                                                   methodology_applied, available),
                                    PyNone, req.mode))
                   /\ UNCHANGED rlg
    /\ UNCHANGED <<selVars, cancel, script, req, plans, intent0, intent, guard,
                   research_performed, methodology_applied>>

\* The availability of the upstream models a request is served under:
\* every model answers its test call.
Availabilities == {ModelIds}

Init ==
    /\ script = <<>>
    /\ rl = IdleCall
    /\ available \in Availabilities
    /\ Idle

Next ==
    \/ EnhancePrompt
    \/ Classify
    \/ Context
    \/ Methodology
    \/ Basic
    \/ Safety
    \/ Enhance

Spec == Init /\ [][Next]_vars

\* --------------------------------------------- a cancelled request ----

\* The task serving the request is cancelled while the call of a stage is
\* pending. The call is a synchronous one made on the event loop's thread
\* (Agent.process does not await it), so the request is only recorded: the
\* task goes on until its next await that suspends.
Cancel ==
    /\ pc \in Stages
    /\ cancel = "none"
    /\ cancel' = pc
    /\ UNCHANGED <<selVars, script, rl, rlg, req, pc, plans, calls, slept, outs,
                   intent0, intent, guard, research_performed, methodology_applied,
                   result, raised, http, stored>>

NextCancel ==
    \/ EnhancePrompt
    \/ Classify
    \/ Context
    \/ Methodology
    \/ Basic
    \/ Safety
    \/ Enhance
    \/ Cancel

SpecCancel == Init /\ [][NextCancel]_vars

\* ---- properties of the retry executor (checked under SpecRetry) ----

\* The upstream messages that are rate-limit-class errors by their wording
\* ("rate limit", "too many requests" or "429", whatever the case).
RateLimitClass == {"429 Too Many Requests", "Rate limit reached"}

\* The wrapped operation raises rate-limit-class errors at its first k
\* invocations and returns at the next one.
FailsThenSucceeds(k) ==
    /\ \A i \in 1..k : script[i].kind = "raise" /\ script[i].msg \in RateLimitClass
    /\ script[k + 1].kind = "return"

\* The wrapped operation raises rate-limit-class errors at its first j - 1
\* invocations and an error of another class at invocation j.
FailsThenFatal(j) ==
    /\ \A i \in 1..(j - 1) : script[i].kind = "raise" /\ script[i].msg \in RateLimitClass
    /\ script[j].kind = "raise" /\ script[j].msg \notin RateLimitClass

\* C1: an operation that fails with a rate-limit-class error exactly k times,
\* k < MAX_RETRIES, and then succeeds makes rate_limited_request return the
\* operation's value after exactly k sleeps and exactly k + 1 invocations:
\* the call never raises, never goes beyond k sleeps or k + 1 invocations,
\* and when it has ended it has returned that value with those counts.
C1_RetryThenSuccess ==
    \A k \in 0..(MAX_RETRIES - 1) :
        FailsThenSucceeds(k) =>
            /\ rl.status # "raised"
            /\ Len(rl.sleeps) <= k
            /\ rl.calls <= k + 1
            /\ rl.status = "active" => rl.calls <= k /\ Len(rl.sleeps) = rl.calls
            /\ rl.status = "returned" =>
                  /\ rl.value = script[k + 1].value
                  /\ Len(rl.sleeps) = k
                  /\ rl.calls = k + 1

\* C1 witness: a call that returned after two rate-limit failures.
C1_Witness ==
    /\ FailsThenSucceeds(2)
    /\ rl.status = "returned"
    /\ Len(rl.sleeps) = 2

\* C2: an error whose lower-cased text has none of the rate-limit phrases is
\* re-raised as it is at whichever attempt it occurs: no sleep follows it and
\* the operation is not invoked again.
C2_FatalNotRetried ==
    \A j \in 1..ScriptLen :
        FailsThenFatal(j) =>
            /\ rl.status # "returned"
            /\ rl.calls <= j
            /\ Len(rl.sleeps) <= j - 1
            /\ rl.status = "active" => rl.calls < j
            /\ rl.status = "raised" =>
                  /\ rl.error = script[j]
                  /\ rl.calls = j
                  /\ Len(rl.sleeps) = j - 1

\* C2 witness: a fatal error at the third invocation, after two retries, was
\* re-raised.
C2_Witness ==
    /\ FailsThenFatal(3)
    /\ rl.status = "raised"
    /\ rl.error = script[3]
    /\ rl.calls = 3

\* The wrapped operation raises a rate-limit-class error at every invocation.
AlwaysRateLimited ==
    \A i \in 1..ScriptLen : script[i].kind = "raise" /\ script[i].msg \in RateLimitClass

\* C11: when every attempt fails with a rate-limit-class error,
\* rate_limited_request ends by re-raising the error of the last attempt
\* after MAX_RETRIES + 1 invocations and MAX_RETRIES sleeps: while the call
\* is in progress it has made at most MAX_RETRIES invocations, it never
\* returns, and it never ends with the generic "Unexpected error in rate
\* limiting logic" exception.
C11_ExhaustionReraisesLast ==
    AlwaysRateLimited =>
        /\ rl.status # "returned"
        /\ rl.calls <= MAX_RETRIES + 1
        /\ Len(rl.sleeps) <= MAX_RETRIES
        /\ rl.status = "active" => rl.calls <= MAX_RETRIES /\ Len(rl.sleeps) = rl.calls
        /\ rl.status = "raised" =>
              /\ rl.error = script[MAX_RETRIES + 1]
              /\ rl.error.msg # "Unexpected error in rate limiting logic"
              /\ rl.calls = MAX_RETRIES + 1
              /\ Len(rl.sleeps) = MAX_RETRIES

\* C11 witness: four rate-limit failures, the last of them re-raised after
\* three sleeps.
C11_Witness ==
    /\ AlwaysRateLimited
    /\ rl.status = "raised"
    /\ rl.error = script[ScriptLen]
    /\ rl.calls = ScriptLen
    /\ Len(rl.sleeps) = MAX_RETRIES

\* ---- properties of a request (checked under Spec) ----

\* orchestrate_enhancement has returned a result and enhance_prompt answered 200.
Returned == pc = "responded" /\ http.status = 200

\* parse_intent_json has returned a classification.
Classified == intent0 # NoIntent

\* The result returned is the greeting or the clarification of step 2.
ShortCircuited ==
    /\ Returned
    /\ result.process_steps[2] \in {"single_mode_greeting_enhancement", "clarification_routing"}

\* The request has been classified and step 2 has not returned.
Routed == Classified /\ ~ShortCircuited

\* The request is past steps 4 and 5, run or skipped.
StagesDecided == Routed /\ pc \in {"basic", "safety", "enhance", "responded"}

\* The text Runner.run gives for an upstream exception with message msg.
ErrorText(msg) == Text(<<"Error: ", msg>>, NoJson)

C4_TripwireIffFlaggedAndBlock ==
    guard # NoGuardrailOutput =>
        (guard.tripwire_triggered
            <=> (guard.flagged = JBool(TRUE) /\ guard.recommendation = JStr("block")))

\* C4 witness: the keyword fallback set the tripwire for a prompt with a
\* blocklisted word, with no recommendation to block, and the request was
\* refused.
C4_Witness ==
    /\ req.prompt = "How to Hack wifi"
    /\ guard.method = "keyword_based"
    /\ guard.recommendation = JAbsent
    /\ guard.tripwire_triggered
    /\ http.status = 400

\* The action the fixed thresholds give a complexity score (hundredths).
ThresholdAction(score) ==
    IF score < 30 THEN "request_clarification"
    ELSE IF score < 50 THEN "basic_enhancement"
    ELSE IF score < 70 THEN "standard_enhancement"
    ELSE "advanced_enhancement"

\* C5 (as stated): the classification parse_intent_json returns, structured
\* or heuristic, before any mode override, has the suggested_action the fixed
\* thresholds give its input_complexity_score.
C5_ActionIsThresholdOfScore ==
    Classified => intent0.suggested_action = ThresholdAction(intent0.input_complexity_score)

\* C5 witness: the heuristic classified a technical text with score 0.6 as a
\* basic enhancement.
C5_Witness ==
    /\ outs["classify"].final_output = Prose("program code")
    /\ intent0.intent_category = "technical"
    /\ intent0.input_complexity_score = 60
    /\ intent0.suggested_action = "basic_enhancement"

\* C6 (as stated): for every request that step 2 does not return, the context
\* call is issued if and only if requires_context holds and the post-override
\* score is above 0.4, the methodology call if and only if that score is
\* above 0.5, and a returned request of score 0.65 has both in process_steps.
C6_GatesForEveryRequest ==
    StagesDecided =>
        /\ calls["context"] > 0
              <=> (intent.requires_context /\ intent.input_complexity_score > 40)
        /\ calls["methodology"] > 0 <=> intent.input_complexity_score > 50
        /\ (Returned /\ intent.input_complexity_score = 65) =>
              /\ \E i \in DOMAIN result.process_steps :
                    result.process_steps[i] = "domain_context_research"
              /\ \E i \in DOMAIN result.process_steps :
                    result.process_steps[i] = "4d_methodology_application"

\* C6 (amended): the gates are those of the standard/advanced path.  For a
\* request that step 2 does not return, the context call is issued if and
\* only if the post-override suggested_action is not basic_enhancement,
\* requires_context holds and the post-override score is above 0.4; the
\* methodology call if and only if the action is not basic_enhancement and
\* the score is above 0.5; at no moment has a gated-out stage been called;
\* and a returned request of score 0.65 with requires_context and an action
\* other than basic_enhancement has both stages in process_steps.
C6_GatesOnStandardPath ==
    /\ calls["context"] > 0 =>
          /\ intent.suggested_action # "basic_enhancement"
          /\ intent.requires_context
          /\ intent.input_complexity_score > 40
    /\ calls["methodology"] > 0 =>
          /\ intent.suggested_action # "basic_enhancement"
          /\ intent.input_complexity_score > 50
    /\ StagesDecided =>
          /\ calls["context"] > 0
                <=> /\ intent.suggested_action # "basic_enhancement"
                    /\ intent.requires_context
                    /\ intent.input_complexity_score > 40
          /\ calls["methodology"] > 0
                <=> /\ intent.suggested_action # "basic_enhancement"
                    /\ intent.input_complexity_score > 50
          /\ calls["context"] <= 1
          /\ calls["methodology"] <= 1
    /\ ( /\ Returned
         /\ Routed
         /\ intent.input_complexity_score = 65
         /\ intent.requires_context
         /\ intent.suggested_action # "basic_enhancement" ) =>
          result.process_steps =
              <<"intent_classification", "domain_context_research",
                "4d_methodology_application", "proportional_prompt_optimization">>

\* C6 witness: a request of score 0.65 with requires_context ran both stages
\* and was returned with both in process_steps.
C6_Witness ==
    /\ Returned
    /\ intent.input_complexity_score = 65
    /\ intent.requires_context
    /\ calls["context"] = 1
    /\ calls["methodology"] = 1
    /\ Len(result.process_steps) = 4

\* C7 (as stated): parse_intent_json never raises: whenever the classifier's
\* call has returned a text, whatever it holds, a classification comes out
\* of it and no exception of the parse ends the request.
C7_ParseNeverRaises ==
    outs["classify"] # NoResult =>
        /\ Classified
        /\ raised.type \notin {"AttributeError", "TypeError"}

\* C7 witness: the classifier answered a JSON array, the parse raised
\* AttributeError and the request was answered 500.
C7_Witness ==
    /\ outs["classify"].final_output.json = JArray(2)
    /\ raised.type = "AttributeError"
    /\ ~Classified
    /\ http.status = 500

\* The upstream service fails the first two calls of a stage with a 429 and
\* answers the third.
TwiceThenSucceeds == [fails |-> 2, msg |-> "429 Too Many Requests"]

\* C8 (as stated): when a stage's generation call fails twice with "429 Too
\* Many Requests" and would then succeed, the request succeeds, exactly two
\* backoff sleeps were made for the stage (three calls), and the text of a
\* stage that gives the result's text is that of the successful generation.
C8_Retried429Succeeds ==
    \A s \in Stages :
        (plans[s] = TwiceThenSucceeds /\ calls[s] > 0 /\ pc = "responded") =>
            /\ http.status = 200
            /\ slept[s] = 2
            /\ calls[s] = 3
            /\ s \in {"basic", "enhance"} =>
                  result.enhanced_prompt \in Responses(s)

\* C8 witness: the enhancer's first call failed with the 429; the request
\* was returned after that one call and no sleep, its text the error's.
C8_Witness ==
    /\ plans["enhance"] = TwiceThenSucceeds
    /\ Returned
    /\ calls["enhance"] = 1
    /\ slept["enhance"] = 0
    /\ result.enhanced_prompt = ErrorText("429 Too Many Requests")

\* C9 (as stated): a fatal upstream failure of a stage's generation call is
\* not retried and leaves orchestrate_enhancement as a failure: the request
\* is never answered with a normal result.
C9_FatalPropagates ==
    \A s \in Stages :
        ( /\ plans[s].fails > 0
          /\ plans[s].msg = "Invalid API Key"
          /\ calls[s] > 0
          /\ pc = "responded" ) =>
            /\ calls[s] = 1
            /\ http.status # 200

\* C9 witness: the classifier's call failed with a fatal error, the error's
\* text was classified by the heuristic, and a normal result was returned.
C9_Witness ==
    /\ plans["classify"].msg = "Invalid API Key"
    /\ calls["classify"] = 1
    /\ outs["classify"] = AgentResult(ErrorText("Invalid API Key"), FALSE)
    /\ Classified
    /\ Returned

\* The safety assessment read from the safety agent's answer has
\* flagged = true and recommendation = "block".
Blocked ==
    /\ guard.method = "model"
    /\ guard.flagged = JBool(TRUE)
    /\ guard.recommendation = JStr("block")

\* C10: when the safety check yields flagged = true with recommendation
\* "block", the tripwire exception leaves orchestrate_enhancement, the
\* enhancer's generation call is never issued, nothing is returned or
\* stored, and the caller is answered 400 with the fixed detail
\* "Content safety check failed: Input guardrail triggered".
C10_BlockRefused ==
    Blocked =>
        /\ calls["enhance"] = 0
        /\ pc = "responded"
        /\ raised = Tripwire
        /\ result = NoDict
        /\ stored = 0
        /\ http = HTTPException(400, <<"Content safety check failed: ",
                                      "Input guardrail triggered">>)

\* C10 witness: a request whose context and safety calls were answered, the
\* safety answer flagged with "block", was refused with 400.
C10_Witness ==
    /\ Blocked
    /\ calls["safety"] = 1
    /\ calls["context"] = 1
    /\ calls["enhance"] = 0
    /\ http.status = 400

\* No generation call has been issued after the classifier's.
OnlyClassifierCalled ==
    \A s \in Stages \ {"classify"} : calls[s] = 0

\* C12: in mode "multi", when the classification's suggested_action is
\* request_clarification, orchestrate_enhancement returns with no generation
\* call issued after the classifier's; the enhanced text is the
\* classification's conversation_starter when it has one (not None, not
\* empty) and the generic text otherwise, enhancement_type is
\* clarification_request and process_steps is exactly
\* [intent_classification, clarification_routing].
C12_MultiClarification ==
    (Classified /\ req.mode = "multi" /\ intent0.suggested_action = "request_clarification") =>
        /\ Returned
        /\ OnlyClassifierCalled
        /\ calls["classify"] = 1
        /\ intent0.conversation_starter \notin {PyNone, ""} =>
              result.enhanced_prompt = Prose(intent0.conversation_starter)
        /\ intent0.conversation_starter \in {PyNone, ""} =>
              result.enhanced_prompt =
                  Prose("I'd be happy to help enhance your prompt! Could you share more details")
        /\ result.enhancement_type = "clarification_request"
        /\ result.process_steps = <<"intent_classification", "clarification_routing">>

\* C12 witness: a multi-mode request whose classification asks for
\* clarification and has a conversation starter was answered with it.
C12_Witness ==
    /\ Returned
    /\ req.mode = "multi"
    /\ intent0.suggested_action = "request_clarification"
    /\ intent0.conversation_starter = "What would you like to create today?"
    /\ result.enhanced_prompt = Prose("What would you like to create today?")
    /\ result.enhancement_type = "clarification_request"

\* The texts create_enhanced_greeting_response can return: a template or the
\* fallback with one of its time contexts, each followed by next_steps.
GreetingTexts ==
    {Text(<<GreetingTemplate[g], "next_steps">>, NoJson) : g \in DOMAIN GreetingTemplate}
    \cup {Text(<<"greeting fallback", tc, "next_steps">>, NoJson) :
            tc \in {"time_context morning", "time_context afternoon",
                    "time_context evening", "time_context late"}}

StageOfStep ==
    "intent_classification" :> "classify" @@
    "domain_context_research" :> "context" @@
    "4d_methodology_application" :> "methodology" @@
    "basic_enhancement" :> "basic" @@
    "proportional_prompt_optimization" :> "enhance"

\* The order in which orchestrate_enhancement reaches its agents' calls.
StageOrder ==
    "classify" :> 1 @@ "context" :> 2 @@ "methodology" :> 3 @@ "basic" :> 4 @@ "enhance" :> 4

\* The stages the steps of a process_steps name.
StagesNamed(steps) ==
    {StageOfStep[steps[i]] : i \in {j \in DOMAIN steps : steps[j] \in DOMAIN StageOfStep}}

ModelKeys == DOMAIN result.models_used.entries

\* C16: every result orchestrate_enhancement returns, on every path, carries
\* a models_used mapping with an entry for each stage that executed, and a
\* skipped stage is omitted from the mapping rather than present with a null
\* value.
C16_ModelsUsedOmitsSkippedStages ==
    Returned =>
      /\ result.models_used.present
      /\ "classification" \in ModelKeys
      /\ "context" \in ModelKeys <=> calls["context"] > 0
      /\ "methodology" \in ModelKeys <=> calls["methodology"] > 0
      /\ "enhancement" \in ModelKeys <=> calls["enhance"] + calls["basic"] > 0
      /\ \A k \in ModelKeys : result.models_used.entries[k] # PyNone

\* C16 witness: a result of the standard path that made no context call has
\* a "context" entry holding None.
C16_Witness ==
    /\ Returned
    /\ calls["context"] = 0
    /\ result.models_used.present
    /\ "context" \in ModelKeys
    /\ result.models_used.entries["context"] = PyNone

\* The lengths of the enhanced text and of the prompt of the returned result.
EnhancedLen == TextLen(result.enhanced_prompt)
PromptLen == Len(Chars[req.prompt])

\* t tenths is a / b rounded to one decimal, the even tenth of two equally near.
NearestTenth(t, a, b) ==
    /\ 2 * (t * b - 10 * a) <= b
    /\ 2 * (10 * a - t * b) <= b
    /\ (2 * (t * b - 10 * a) = b \/ 2 * (10 * a - t * b) = b) => t % 2 = 0

\* C17 as stated: for every returned result, enhancement_ratio equals
\* len(enhanced text) / len(original text) exactly, with no rounding or
\* truncation.
C17_RatioIsExact ==
    Returned => result.enhancement_ratio * PromptLen = 10 * EnhancedLen

\* C17: for every returned result, enhancement_ratio is len(enhanced text) /
\* len(original text) rounded to one decimal place.
C17_RatioIsRoundedToOneDecimal ==
    Returned => NearestTenth(result.enhancement_ratio, EnhancedLen, PromptLen)

\* C17 witness: a 22-character text returned for a 16-character prompt has
\* ratio 1.4, the quotient being 1.375.
C17_Witness ==
    /\ Returned
    /\ PromptLen = 16
    /\ EnhancedLen = 22
    /\ result.enhancement_ratio = 14

\* C18: for all inputs and all answers of the classifier, the
\* input_complexity_score of the classification, and the complexity_score of
\* every returned result after any mode override, lies in [0, 1].
C18_ScoreInUnitInterval ==
    /\ Classified => intent0.input_complexity_score \in 0..100
    /\ Returned => result.complexity_score \in 0..100

\* C18 witness: a result returned with complexity_score 1.5.
C18_Witness ==
    /\ Returned
    /\ intent0.input_complexity_score = 150
    /\ result.complexity_score = 150

\* C19: for every non-empty input, the enhanced text of every returned
\* result is a non-empty string, whatever text the upstream service returns
\* and whether or not a generation call failed.
C19_EnhancedTextNonEmpty ==
    Returned => EnhancedLen > 0

\* C19 witness: the enhancer's call succeeded with an empty text and the
\* result returned for a non-empty prompt has an empty enhanced text.
C19_Witness ==
    /\ Returned
    /\ PromptLen > 0
    /\ outs["enhance"].success
    /\ calls["enhance"] = 1
    /\ EnhancedLen = 0

\* The text the classifier answered with.
ClassifierText == outs["classify"].final_output

\* C24: whenever the classifier's answer has no parsable structure and is
\* prose containing the keywords "program" and "code", the heuristic
\* fallback of parse_intent_json assigns the category technical, whatever
\* other words the prose contains.
C24_ProgramCodeIsTechnical ==
    (/\ Classified
     /\ ClassifierText.json = NoJson
     /\ TextHasWord(ClassifierText, "program")
     /\ TextHasWord(ClassifierText, "code"))
    => intent0.intent_category = "technical"

\* C24 witness: the prose "This program has code" is classified as a
\* greeting.
C24_Witness ==
    /\ Classified
    /\ ClassifierText = Prose("This program has code")
    /\ intent0.intent_category = "greeting"

\* The classifier's answer is one JSON object written inside prose and
\* code-fence markers.
EmbeddedAnswer == Classified /\ "layout" \in DOMAIN ClassifierText

\* C25: for any upstream text that consists of one JSON object embedded
\* anywhere within surrounding prose and code-fence markers,
\* parse_intent_json recovers exactly that object, whose field values
\* populate the classification, instead of falling back to the heuristic.
C25_EmbeddedObjectRecovered ==
    EmbeddedAnswer =>
      /\ ClassifierText.json = Written(ClassifierText)
      /\ intent0 = StructuredClassification(Written(ClassifierText)).value

\* C25 witness: an object that follows prose holding braces on the same
\* line is not extracted, and the heuristic classifies the text as creative.
C25_Witness ==
    /\ EmbeddedAnswer
    /\ Len(ClassifierText.layout) = 2
    /\ ClassifierText.json = NoJson
    /\ Written(ClassifierText).f["intent_category"] = JStr("technical")
    /\ intent0.intent_category = "creative"

\* C26 (as stated): a request whose prompt is empty or whitespace-only is
\* answered with status 400 and detail "Prompt cannot be empty", and no
\* stage of the orchestration is started for it.
C26_BlankPromptRejected400 ==
    (pc = "responded" /\ IsBlank(req.prompt)) =>
        /\ http.status = 400
        /\ http.detail = <<"Prompt cannot be empty">>
        /\ \A s \in Stages : calls[s] = 0
        /\ intent0 = NoIntent
        /\ stored = 0

\* C26 witness: the whitespace-only prompt was answered; the exception of
\* the validation was raised, no stage was called and nothing was stored,
\* but the answer is 500 "Internal server error".
C26_Witness ==
    /\ pc = "responded"
    /\ req.prompt = "   "
    /\ IsBlank(req.prompt)
    /\ raised = Raise("HTTPException", "Prompt cannot be empty")
    /\ \A s \in Stages : calls[s] = 0
    /\ stored = 0
    /\ http.status = 500
    /\ http.detail = <<"Internal server error">>

\* The classifier's record is one that single mode rewrites although its
\* action is not request_clarification: a basic enhancement with a score
\* under 0.4, or with a score of at least 0.3 for a technical, creative or
\* business request.
SingleModeRewritesBasic ==
    /\ req.mode = "single"
    /\ intent0.suggested_action = "basic_enhancement"
    /\ \/ intent0.input_complexity_score < 40
       \/ /\ intent0.input_complexity_score >= 30
          /\ intent0.intent_category \in {"technical", "creative", "business"}

C29_GuardrailBeforeEveryEnhancement ==
    (calls["basic"] > 0 \/ calls["enhance"] > 0) =>
        /\ guard # NoGuardrailOutput
        /\ ~guard.tripwire_triggered

\* C29 witness: the prompt the safety agent objects to was classified as a
\* basic enhancement; the basic enhancer's call was issued and its text
\* returned while no safety call was made and no guardrail output exists.
C29_Witness ==
    /\ Returned
    /\ req.prompt = "How to Hack wifi"
    /\ result.enhancement_type = "basic_enhancement"
    /\ calls["basic"] = 1
    /\ outs["basic"].success
    /\ result.enhanced_prompt = outs["basic"].final_output
    /\ calls["safety"] = 0
    /\ guard = NoGuardrailOutput

\* The orchestrator has gone past the routing to the context, methodology
\* or enhancer stage (the enhancer's includes its guardrail).
ReachedLaterStage ==
    \/ pc \in {"context", "methodology", "safety", "enhance"}
    \/ \E s \in {"context", "methodology", "safety", "enhance"} : calls[s] > 0

\* C30 (as stated): for every mode string the endpoint accepts, a
\* classification whose suggested_action is request_clarification never
\* reaches the context, methodology or enhancer stage with that action
\* unchanged: the request is short-circuited or the action is overridden
\* before any further generation call.
C30_ClarificationNeverReachesLaterStages ==
    ( /\ Classified
      /\ intent0.suggested_action = "request_clarification"
      /\ ReachedLaterStage ) =>
        intent.suggested_action # "request_clarification"

\* C30 witness: with the mode "batch" a request_clarification record went
\* through the routing untouched, the enhancer's generation call was issued
\* and its result returned with the record unchanged.
C30_Witness ==
    /\ Returned
    /\ req.mode = "batch"
    /\ intent0.suggested_action = "request_clarification"
    /\ intent = intent0
    /\ calls["enhance"] = 1
    /\ result.intent_analysis.suggested_action = "request_clarification"
    /\ result.enhancement_type \notin {"clarification_request", "enhanced_greeting"}

\* ---- properties of the model selection (checked under SpecSelect) ----

\* A call of select_model_for_task has been made.
Selected == selected # NoSelection

\* No candidate of the last call's preference list is available.
NoCandidateAvailable ==
    \A i \in 1..Len(selected.preferred) : selected.preferred[i] \notin available

\* The first available candidate of a preference list that has one.
FirstAvailable(preferred_models) ==
    preferred_models[
      CHOOSE i \in 1..Len(preferred_models) :
        /\ preferred_models[i] \in available
        /\ \A j \in 1..(i - 1) : preferred_models[j] \notin available]

\* C20: select_model_for_task always returns a model identifier and never
\* raises: the first available candidate of its preference list when there
\* is one, and the legacy fallback identifier llama3-8b-8192 when none of
\* the candidates is available.
C20_SelectAlwaysReturns ==
    Selected =>
      /\ selected.out.kind = "return"
      /\ selected.out.value \in ModelIds
      /\ NoCandidateAvailable => selected.out.value = "llama3-8b-8192"
      /\ ~NoCandidateAvailable =>
           selected.out.value = FirstAvailable(selected.preferred)

\* A call whose candidates were all unavailable, the legacy fallback among
\* them, has returned the legacy fallback identifier.
C20_Witness ==
    /\ Selected
    /\ NoCandidateAvailable
    /\ LEGACY_FALLBACK \notin available
    /\ available # {}
    /\ selected.out = Return(LEGACY_FALLBACK)


\* ---- properties of concurrent selections (checked under SpecProbe) ----

\* The models of a preference list.
Candidates(preferred_models) == {preferred_models[i] : i \in DOMAIN preferred_models}

\* Each model has been tested at most once, exactly the cached ones have
\* been tested, and the last selection returned a member of its list or the
\* legacy fallback.
ProbedAtMostOnce ==
    /\ \A m \in ModelIds : probes[m] = IF m \in DOMAIN model_availability THEN 1 ELSE 0
    /\ Selected =>
         /\ selected.out.kind = "return"
         /\ selected.out.value \in Candidates(selected.preferred) \cup {LEGACY_FALLBACK}

\* A step leaves every cached model cached with the same value and makes no
\* test call for it.
CacheKept ==
    \A m \in DOMAIN model_availability :
      /\ m \in DOMAIN model_availability'
      /\ model_availability'[m] = model_availability[m]
      /\ probes'[m] = probes[m]

\* C21: the availability of each model id is probed at most once per
\* process: under any interleaving of selection calls, once an id has a
\* cached boolean no later call probes it again and the cached value never
\* changes, and every selection returns a member of its preference list or
\* the legacy fallback.
C21_ProbedOncePerProcess == []ProbedAtMostOnce /\ [][CacheKept]_vars

\* C21 witness: a model cached as available while it answered, which no
\* longer answers, has been tested once and is what the last selection
\* returned.
C21_Witness ==
    /\ Selected
    /\ selected.out.value \in DOMAIN model_availability
    /\ model_availability[selected.out.value]
    /\ selected.out.value \notin available
    /\ probes[selected.out.value] = 1


\* ---- properties of the preference lists (checked under SpecFirst) ----

\* C22: for every call of select_model_for_task with task_type "safety",
\* whatever the agent_type and the speed preference, the safety-specialized
\* model is tried before any general model, so it is the one selected
\* whenever it is available.
C22_SafetyModelFirst ==
    (Selected /\ selected.task_type = "safety") =>
      /\ selected.preferred[1] = SAFETY_MODEL
      /\ SAFETY_MODEL \in available => selected.out.value = SAFETY_MODEL

\* C22 witness: a safety selection made for a classifier agent while the
\* safety model is available tries the balanced model first and returns a
\* general model.
C22_Witness ==
    /\ Selected
    /\ selected.task_type = "safety"
    /\ selected.agent_type = "classifier"
    /\ SAFETY_MODEL \in available
    /\ selected.preferred = <<BALANCED_MODEL, ULTRA_FAST_MODEL, LEGACY_FALLBACK>>
    /\ selected.out.value # SAFETY_MODEL

\* The fast, cheap models and the high-reasoning models of ModelConfig.
FastModels == {ULTRA_FAST_MODEL, BALANCED_ALT}
HighReasoningModels == {REASONING_MODEL, ADVANCED_REASONING, ADVANCED_COMPLEX}

\* C23: for every selection with task_type "enhancement", the one of the
\* Enhancer stage included, the candidate order depends on complexity_score:
\* a score of at most 0.3 puts a fast, cheap model first and a score above
\* 0.7 puts a high-reasoning model first.
C23_EnhancementOrderFollowsScore ==
    (Selected /\ selected.task_type = "enhancement") =>
      /\ selected.complexity_score <= 30 => selected.preferred[1] \in FastModels
      /\ selected.complexity_score > 70 => selected.preferred[1] \in HighReasoningModels

\* C23 witness: the Enhancer stage's selection for a score of 0.3 tries the
\* model for complex enhancements first.
C23_Witness ==
    /\ Selected
    /\ selected.task_type = "enhancement"
    /\ selected.agent_type = "advanced_enhancer"
    /\ ~selected.prefer_speed
    /\ selected.complexity_score = 30
    /\ selected.preferred[1] = ADVANCED_COMPLEX

\* ---- properties of a cancelled request (checked under SpecCancel) ----

\* The stages orchestrate_enhancement can still reach after `stage`.
LaterStages(stage) ==
    CASE stage = "classify" -> Stages \ {"classify"}
      [] stage = "context" -> {"methodology", "safety", "enhance"}
      [] stage = "methodology" -> {"safety", "enhance"}
      [] stage = "safety" -> {"enhance"}
      [] OTHER -> {}

\* C28 (as stated): when the request is cancelled while the upstream call of
\* a stage is pending, that call is abandoned (its answer is never used), no
\* later stage's upstream call is issued, and no result is returned or
\* persisted for the request.
C28_CancelAbortsPipeline ==
    cancel # "none" =>
        /\ outs[cancel] = NoResult
        /\ \A s \in LaterStages(cancel) : calls[s] = 0
        /\ result = NoDict
        /\ http = NoResponse
        /\ stored = 0

\* C28 witness: the request was cancelled during the classifier's call; the
\* call was completed and its answer classified, the enhancer's call was
\* issued afterwards, orchestrate_enhancement returned its dictionary, and
\* the cancellation took effect at the insertion, which was carried out.
C28_Witness ==
    /\ cancel = "classify"
    /\ pc = "cancelled"
    /\ calls["classify"] = 1
    /\ outs["classify"] # NoResult
    /\ Classified
    /\ calls["enhance"] = 1
    /\ result # NoDict
    /\ stored = 1
    /\ http = NoResponse

====
